---- MODULE Spec2Model ----
(***************************************************************************)
(* modpypes: the MODBUS/TCP client stack, the PDU codec and the server.     *)
(*                                                                         *)
(* Two client stacks are built by the sources: client.py main() binds a    *)
(* Controller (one QController per destination) on a ModbusClient, and     *)
(* app.py ModbusClientController (a SieveClientController with one queue   *)
(* per destination) binds itself on a ModbusClient and subscribes a        *)
(* ModbusClientASE to the director's actor events.  The variable `kind`    *)
(* says which of the two was constructed.                                  *)
(*                                                                         *)
(* The queue classes derive from bacpypes.iocb (IOCB, IOController,        *)
(* IOQController, SieveClientController); their inherited methods are      *)
(* modelled by what they do when called from client.py and app.py.         *)
(***************************************************************************)
EXTENDS Integers, Sequences, FiniteSets, TLC

\* ------------------------------------------------------------------ bounds
MaxReq == 3
MaxObsReq == 2

\* --------------------------------------------------------------- constants
Peers == {"X", "Y"}
Kinds == {"client", "app"}

\* IOCB states (bacpypes.iocb, ABORTED imported at app.py:16)
IDLE == "IDLE"
PENDING == "PENDING"
ACTIVE == "ACTIVE"
COMPLETED == "COMPLETED"
ABORTED == "ABORTED"

\* controller states (CTRL_IDLE imported at app.py:16)
CTRL_IDLE == "CTRL_IDLE"
CTRL_ACTIVE == "CTRL_ACTIVE"

\* MPCI.__init__: every PDU is constructed with mpduTransactionID = 0
MPCI_init_TransactionID == 0

\* a PDU handed upward / an error object, None when absent
None == [what |-> "None", tx |-> 0]
ActorErrors == {"timeout"}
connection_closed == [what |-> "connection closed", tx |-> 0]
actor_error(e) == [what |-> e, tx |-> 0]

\* inbound frames as the director delivers them to ModbusClient.confirmation:
\*   proto  the MBAP protocolID
\*   lenOK  whether mpduLength = len(pduData) + 2
\*   fc     "resp": a registered response function code with a whole body,
\*          "short": a registered response function code, body cut short,
\*          "exc": function code >= 128,  "unk": below 128, not registered
\*   tx     the MBAP transactionID
FrameKinds == {"resp", "short", "exc", "unk"}
TxIDs == {0, 1}
AllFrames == [proto : {0, 1}, lenOK : BOOLEAN, fc : FrameKinds, tx : TxIDs]
\* the frames delivered in the model: one of each class ModbusClient.confirmation
\* and the controllers tell apart
Frames ==
    {f \in AllFrames :
        \/ ~f.lenOK /\ f.fc = "resp" /\ f.tx = 0
        \/ f.lenOK /\ f.proto = 1 /\ f.fc = "resp" /\ f.tx = 0
        \/ f.lenOK /\ f.proto = 0 /\ f.tx = 0
        \/ f.lenOK /\ f.proto = 0 /\ f.fc = "resp"}
NoFrame == [proto |-> 0, lenOK |-> TRUE, fc |-> "none", tx |-> 0]

VARIABLES
    kind,       \* which stack was constructed: "client" (client.py) or "app" (app.py)
    nIocb,      \* number of IOCBs submitted so far; they are numbered 1..nIocb
    iocb,       \* [1..MaxReq -> IOCB]: dest, request, ioState, ioResponse, ioError
    queues,     \* Controller.controllers / SieveClientController.queues
    conn,       \* [Peers -> {"down", "up", "closing"}]: the director's actor
                \* for the peer; "closing" after disconnect(peer)
    wire,       \* [Peers -> Seq]: the requests handed to the director, in order
    notified,   \* [Peers -> Seq]: the IOCBs whose trigger() ran, in order
    observing,  \* whether the handlers' outcomes are recorded in `last`
    last,       \* when observing: the handler that ran last and what it did
    call,       \* the codec function or server handler called last, with its
                \* argument and its result
    server      \* SimpleServer: unitNumber, coils, registers

clientVars == <<kind, nIocb, iocb, queues, conn, wire, notified, observing, last>>
vars == <<kind, nIocb, iocb, queues, conn, wire, notified, observing, last,
          call, server>>

IocbIds == 1 .. MaxReq

\* an IOCB before request_io: state IDLE
NoIocb ==
    [dest |-> "none", encodable |-> TRUE, tx |-> 0,
     ioState |-> IDLE, ioResponse |-> None, ioError |-> None]

\* an absent entry of the controllers / queues dictionary
NoQueue ==
    [present |-> FALSE, state |-> CTRL_IDLE, active_iocb |-> 0,
     ioQueue |-> <<>>, trig |-> 0]

\* IOQController.__init__ (called at client.py:48): idle, no active iocb, empty queue
NewQueue ==
    [present |-> TRUE, state |-> CTRL_IDLE, active_iocb |-> 0,
     ioQueue |-> <<>>, trig |-> 0]

\* the part of the state the handlers work on
World == [iocb |-> iocb, queues |-> queues, wire |-> wire, notified |-> notified]

\* the result of a call that may raise
Ok(w) == [w |-> w, raised |-> "none"]
Raise(w, exc) == [w |-> w, raised |-> exc]

\* ------------------------------------------------------------------ pdu.py

\* the octets of a frame or of a PDU body: a sequence of numbers 0..255

\* PDUData.put_short (called at pdu.py:422-424 and by the encoders):
\* struct.pack('>H', n), two octets, the high one first
put_short(n) == <<n \div 256, n % 256>>

\* PDUData.get_short (called at pdu.py:434-436 and by the decoders):
\* struct.unpack('>H', ...) of the two octets at the front of the data
get_short(data) == data[1] * 256 + data[2]

\* data[n:], what is left once n octets are taken from the front
Drop(data, n) == SubSeq(data, n + 1, Len(data))

\* data[:n]
Take(data, n) == SubSeq(data, 1, IF n < Len(data) THEN n ELSE Len(data))

\* the for loop of _packBitsToString (pdu.py:37-45): the bits still to read,
\* and the loop's barry, i and packed
RECURSIVE packLoop(_, _, _, _)
packLoop(bits, barry, i, packed) ==
    IF bits = <<>>
    THEN [barry |-> barry, i |-> i, packed |-> packed]
    ELSE LET p1 == IF Head(bits) THEN packed + 128 ELSE packed
         IN  IF i + 1 = 8
             THEN packLoop(Tail(bits), Append(barry, p1), 0, 0)
             ELSE packLoop(Tail(bits), barry, i + 1, p1 \div 2)

\* faulty variant of _packBitsToString: the first coil in the high bit
_packBitsToString_HighFirst(bits) ==
    [k \in 1 .. ((Len(bits) + 7) \div 8) |->
        LET b(j) == IF 8 * (k - 1) + j + 1 <= Len(bits)
                       /\ bits[8 * (k - 1) + j + 1] THEN 2 ^ (7 - j) ELSE 0
        IN  b(0) + b(1) + b(2) + b(3) + b(4) + b(5) + b(6) + b(7)]

\* _packBitsToString (pdu.py:34-49)
_packBitsToString(bits) ==
    LET l == packLoop(bits, <<>>, 0, 0)
    IN  IF l.i > 0 /\ l.i < 8
        THEN Append(l.barry, l.packed \div (2 ^ (7 - l.i)))
        ELSE l.barry

\* the inner loop of _unpackBitsFromString (pdu.py:55-57): the eight bits of
\* one octet, the low bit first
unpackByte(byte) == [bit \in 1 .. 8 |-> ((byte \div (2 ^ (bit - 1))) % 2) = 1]

\* faulty variant of _unpackBitsFromString: the high bit first
RECURSIVE _unpackBitsFromString_HighFirst(_)
_unpackBitsFromString_HighFirst(string) ==
    IF string = <<>> THEN <<>>
    ELSE [bit \in 1 .. 8 |-> ((Head(string) \div (2 ^ (8 - bit))) % 2) = 1]
         \o _unpackBitsFromString_HighFirst(Tail(string))

\* _unpackBitsFromString (pdu.py:51-58)
RECURSIVE _unpackBitsFromString(_)
_unpackBitsFromString(string) ==
    IF string = <<>> THEN <<>>
    ELSE unpackByte(Head(string)) \o _unpackBitsFromString(Tail(string))

\* ------------------------------------------- pdu.py: the register codecs

\* A Python integer n, which has no width, is written as the pair hi, lo with
\* n = hi * 65536 + lo and lo in 0..65535: lo is n & 0xFFFF and hi is n >> 16.
\* A register is a number in 0..65535.
PyInt(hi, lo) == [hi |-> hi, lo |-> lo]
Num(n) == PyInt(n \div 65536, n % 65536)

\* A Python float that a 32-bit IEEE-754 number holds exactly, written as the
\* three fields of that number.
Float(sign, exponent, fraction) ==
    [sign |-> sign, exponent |-> exponent, fraction |-> fraction]
\* isinstance(value, float) (pdu.py:192, 276)
IsFloat(value) == "exponent" \in DOMAIN value

\* what a method call gives: the value it returns, or the exception it raises
Result(v) == [raised |-> "none", value |-> v]
Failure(exc) == [raised |-> exc, value |-> <<>>]

\* struct.unpack(">HH", struct.pack(">f", value)) (pdu.py:196, 280): the two
\* 16-bit halves of the 32 bits of the float, the high half first
struct_pack_f(value) ==
    <<(value.sign * 32768) + (value.exponent * 128)
        + (value.fraction \div 65536),
      value.fraction % 65536>>

\* struct.unpack(">f", struct.pack(">HH", a, b)) (pdu.py:202, 222, 286): the
\* float whose 32 bits are a, then b
struct_unpack_f(a, b) ==
    Float(a \div 32768, (a \div 128) % 256, ((a % 128) * 65536) + b)

\* the operators & and >> on a float raise TypeError (pdu.py:92, 111, 134,
\* 153, 176, 237, 260)
NoBits == Failure("TypeError")
\* registers[0] or registers[1] of a list that is too short (pdu.py:97, 116,
\* 139, 158, 181, 202, 242, 265, 286)
NoRegister == Failure("IndexError")

\* Byte.pack (pdu.py:89-92)
Byte_pack(value) ==
    IF IsFloat(value) THEN NoBits ELSE Result(<<value.lo % 256>>)

\* Byte.unpack (pdu.py:94-97)
Byte_unpack(registers) ==
    IF Len(registers) < 1 THEN NoRegister ELSE Result(Num(registers[1]))

\* Int.pack (pdu.py:108-111)
Int_pack(value) ==
    IF IsFloat(value) THEN NoBits ELSE Result(<<value.lo>>)

\* Int.unpack (pdu.py:113-120)
Int_unpack(registers) ==
    IF Len(registers) < 1 THEN NoRegister
    ELSE LET value == registers[1]
         IN  IF (value \div 32768) % 2 = 1
             THEN Result(PyInt(-1, value))
             ELSE Result(Num(value))

\* UnsignedInt.pack (pdu.py:131-134)
UnsignedInt_pack(value) ==
    IF IsFloat(value) THEN NoBits ELSE Result(<<value.lo % 256>>)

\* UnsignedInt.unpack (pdu.py:136-139)
UnsignedInt_unpack(registers) ==
    IF Len(registers) < 1 THEN NoRegister ELSE Result(Num(registers[1]))

\* DoubleInt.pack (pdu.py:150-153)
DoubleInt_pack(value) ==
    IF IsFloat(value) THEN NoBits
    ELSE Result(<<value.hi % 65536, value.lo>>)

\* faulty variant of DoubleInt.unpack: the sign bit is not looked at
DoubleInt_unpack_Unsigned(registers) ==
    IF Len(registers) < 2 THEN NoRegister
    ELSE Result(PyInt(registers[1], registers[2]))

\* DoubleInt.unpack (pdu.py:155-162)
DoubleInt_unpack(registers) ==
    IF Len(registers) < 2 THEN NoRegister
    ELSE LET value == PyInt(registers[1], registers[2])
         IN  IF (value.hi \div 32768) % 2 = 1
             THEN Result(PyInt(value.hi - 65536, value.lo))
             ELSE Result(value)

\* UnsignedDoubleInt.pack (pdu.py:173-176)
UnsignedDoubleInt_pack(value) ==
    IF IsFloat(value) THEN NoBits
    ELSE Result(<<value.hi % 65536, value.lo>>)

\* UnsignedDoubleInt.unpack (pdu.py:178-181)
UnsignedDoubleInt_unpack(registers) ==
    IF Len(registers) < 2 THEN NoRegister
    ELSE Result(PyInt(registers[1], registers[2]))

\* Real.pack (pdu.py:188-197): what is not a float is packed as 0.0
Real_pack(value) ==
    LET registers == struct_pack_f(IF IsFloat(value) THEN value
                                   ELSE Float(0, 0, 0))
    IN  Result(<<registers[2], registers[1]>>)

\* Real.unpack (pdu.py:199-203)
Real_unpack(registers) ==
    IF Len(registers) < 2 THEN NoRegister
    ELSE Result(struct_unpack_f(registers[2], registers[1]))

\* ROCReal.pack (pdu.py:210-212)
ROCReal_pack(value) == Failure("NotImplementedError")

\* the octets of a register swapped (pdu.py:219-220)
byteSwap(r) == ((r \div 256) % 256) + ((r % 256) * 256)

\* ROCReal.unpack (pdu.py:214-223): r0, r1 = registers takes a list of two
ROCReal_unpack(registers) ==
    IF Len(registers) # 2 THEN Failure("ValueError")
    ELSE LET r0 == byteSwap(registers[1])
             r1 == byteSwap(registers[2])
         IN  Result(struct_unpack_f(r1, r0))

\* BigEndianDoubleInt.pack (pdu.py:234-237)
BigEndianDoubleInt_pack(value) ==
    IF IsFloat(value) THEN NoBits
    ELSE Result(<<value.lo, value.hi % 65536>>)

\* BigEndianDoubleInt.unpack (pdu.py:239-246)
BigEndianDoubleInt_unpack(registers) ==
    IF Len(registers) < 2 THEN NoRegister
    ELSE LET value == PyInt(registers[2], registers[1])
         IN  IF (value.hi \div 32768) % 2 = 1
             THEN Result(PyInt(value.hi - 65536, value.lo))
             ELSE Result(value)

\* BigEndianUnsignedDoubleInt.pack (pdu.py:257-260)
BigEndianUnsignedDoubleInt_pack(value) ==
    IF IsFloat(value) THEN NoBits
    ELSE Result(<<value.lo, value.hi % 65536>>)

\* BigEndianUnsignedDoubleInt.unpack (pdu.py:262-265)
BigEndianUnsignedDoubleInt_unpack(registers) ==
    IF Len(registers) < 2 THEN NoRegister
    ELSE Result(PyInt(registers[2], registers[1]))

\* BigEndianReal.pack (pdu.py:272-281)
BigEndianReal_pack(value) ==
    LET registers == struct_pack_f(IF IsFloat(value) THEN value
                                   ELSE Float(0, 0, 0))
    IN  Result(<<registers[1], registers[2]>>)

\* BigEndianReal.unpack (pdu.py:283-287)
BigEndianReal_unpack(registers) ==
    IF Len(registers) < 2 THEN NoRegister
    ELSE Result(struct_unpack_f(registers[1], registers[2]))

\* value[:value.find('\x00')] (pdu.py:315, 344) on a string written as the
\* sequence of the codes of its characters: find gives the place of the
\* first zero, or -1, and value[:-1] is the string without its last character
upToNull(value) ==
    IF \E i \in 1 .. Len(value) : value[i] = 0
    THEN SubSeq(value, 1,
                (CHOOSE i \in 1 .. Len(value) :
                    /\ value[i] = 0
                    /\ \A j \in 1 .. i - 1 : value[j] # 0) - 1)
    ELSE IF value = <<>> THEN <<>>
    ELSE SubSeq(value, 1, Len(value) - 1)

\* String.pack (pdu.py:302-304)
String_pack(value) == Failure("NotImplementedError")

\* the loop of BigEndianString.unpack (pdu.py:338-341)
RECURSIVE octetsLowFirst(_)
octetsLowFirst(registers) ==
    IF registers = <<>> THEN <<>>
    ELSE <<Head(registers) % 256, Head(registers) \div 256>>
         \o octetsLowFirst(Tail(registers))

\* the loop of String.unpack (pdu.py:309-312)
RECURSIVE octetsHighFirst(_)
octetsHighFirst(registers) ==
    IF registers = <<>> THEN <<>>
    ELSE <<Head(registers) \div 256, Head(registers) % 256>>
         \o octetsHighFirst(Tail(registers))

\* faulty variant of String.unpack: the low octet of a register first
String_unpack_LowFirst(registers) ==
    Result(upToNull(octetsLowFirst(registers)))

\* String.unpack (pdu.py:306-316)
String_unpack(registers) == Result(upToNull(octetsHighFirst(registers)))

\* BigEndianString.pack (pdu.py:331-333)
BigEndianString_pack(value) == Failure("NotImplementedError")

\* BigEndianString.unpack (pdu.py:335-345)
BigEndianString_unpack(registers) ==
    Result(upToNull(octetsLowFirst(registers)))

\* the names of the registry ModbusStruct (pdu.py:351-364)
ModbusStruct ==
    {"byte", "int", "uint", "dint", "udint", "real", "roc-real", "be-dint",
     "be-udint", "be-real", "str", "be-str"}

\* ModbusStruct[dtype].registerLength (pdu.py:87, 106, 129, 148, 171, 186,
\* 208, 232, 255, 270, and the default of String() and BigEndianString() at
\* pdu.py:296, 325)
registerLength(dtype) ==
    CASE dtype \in {"byte", "int", "uint", "roc-real"} -> 1
      [] dtype \in {"dint", "udint", "real", "be-dint", "be-udint", "be-real"}
            -> 2
      [] dtype \in {"str", "be-str"} -> 6

\* ModbusStruct[dtype].pack(value)
pack(dtype, value) ==
    CASE dtype = "byte" -> Byte_pack(value)
      [] dtype = "int" -> Int_pack(value)
      [] dtype = "uint" -> UnsignedInt_pack(value)
      [] dtype = "dint" -> DoubleInt_pack(value)
      [] dtype = "udint" -> UnsignedDoubleInt_pack(value)
      [] dtype = "real" -> Real_pack(value)
      [] dtype = "roc-real" -> ROCReal_pack(value)
      [] dtype = "be-dint" -> BigEndianDoubleInt_pack(value)
      [] dtype = "be-udint" -> BigEndianUnsignedDoubleInt_pack(value)
      [] dtype = "be-real" -> BigEndianReal_pack(value)
      [] dtype = "str" -> String_pack(value)
      [] dtype = "be-str" -> BigEndianString_pack(value)

\* ModbusStruct[dtype].unpack(registers) (client.py:261-263)
unpack(dtype, registers) ==
    CASE dtype = "byte" -> Byte_unpack(registers)
      [] dtype = "int" -> Int_unpack(registers)
      [] dtype = "uint" -> UnsignedInt_unpack(registers)
      [] dtype = "dint" -> DoubleInt_unpack(registers)
      [] dtype = "udint" -> UnsignedDoubleInt_unpack(registers)
      [] dtype = "real" -> Real_unpack(registers)
      [] dtype = "roc-real" -> ROCReal_unpack(registers)
      [] dtype = "be-dint" -> BigEndianDoubleInt_unpack(registers)
      [] dtype = "be-udint" -> BigEndianUnsignedDoubleInt_unpack(registers)
      [] dtype = "be-real" -> BigEndianReal_unpack(registers)
      [] dtype = "str" -> String_unpack(registers)
      [] dtype = "be-str" -> BigEndianString_unpack(registers)

\* ------------------------------------------------- app.py: stream_to_packet

\* faulty variant of stream_to_packet: the length read low octet first
stream_to_packet_LowFirst(data) ==
    IF Len(data) < 6 THEN <<>>
    ELSE LET pktlen == data[6] * 256 + data[5] + 6
         IN  IF Len(data) < pktlen THEN <<>>
             ELSE <<Take(data, pktlen), Drop(data, pktlen)>>

\* stream_to_packet (app.py:61-77); <<>> stands for the None it returns, else
\* the pair (packet, remaining data)
stream_to_packet(data) ==
    IF Len(data) < 6 THEN <<>>
    ELSE LET pktlen == get_short(SubSeq(data, 5, 6)) + 6
         IN  IF Len(data) < pktlen THEN <<>>
             ELSE <<Take(data, pktlen), Drop(data, pktlen)>>

\* None in a field that holds a number otherwise (mpduLength, pdu.py:403)
NoneInt == -1

\* the fields of PCI and MPCI, the ones MPCI.update copies
MPCI_fields ==
    {"pduSource", "pduDestination", "mpduTransactionID", "mpduProtocolID",
     "mpduLength", "mpduUnitID", "mpduFunctionCode"}

\* MPCI.__init__ (pdu.py:398-405)
MPCI_init ==
    [pduSource |-> "None", pduDestination |-> "None",
     mpduTransactionID |-> MPCI_init_TransactionID, mpduProtocolID |-> 0,
     mpduLength |-> NoneInt, mpduUnitID |-> 0, mpduFunctionCode |-> NoneInt]

\* MPCI.update (pdu.py:407-415): self with the header fields of mpci
MPCI_update(self, mpci) ==
    [f \in DOMAIN self |-> IF f \in MPCI_fields THEN mpci[f] ELSE self[f]]

\* PCI.update (bacpypes.comm, called at pdu.py:420, 433): self with the
\* addresses of pci
PCI_update(self, pci) ==
    [self EXCEPT !.pduSource = pci.pduSource,
                 !.pduDestination = pci.pduDestination]

\* MPDU.__init__ (pdu.py:458-461), PDU(): a header and no data
MPDU_init == MPCI_init @@ [pduData |-> <<>>]

\* the end of every encode method: the body is in pdu.pduData and
\* pdu.mpduLength = len(pdu.pduData) + 2
Encoded(self, data) ==
    [MPCI_update(MPDU_init, self) EXCEPT !.pduData = data,
                                        !.mpduLength = Len(data) + 2]

\* a decode method's result: the exception it raised, or the decoded object
Decoded(pdu) == [raised |-> "none", pdu |-> pdu]
DecodingError(self) == [raised |-> "DecodingError", pdu |-> self]

\* faulty variant of MPCI_encode: the unit ID written before the length
MPCI_encode_UnitFirst(self) ==
    put_short(self.mpduTransactionID) \o put_short(self.mpduProtocolID)
        \o <<self.mpduUnitID>> \o put_short(self.mpduLength)
        \o <<self.mpduFunctionCode>>

\* MPCI.encode (pdu.py:417-427): the octets it puts
MPCI_encode(self) ==
    put_short(self.mpduTransactionID) \o put_short(self.mpduProtocolID)
        \o put_short(self.mpduLength) \o <<self.mpduUnitID>>
        \o <<self.mpduFunctionCode>>

\* MPDU.encode (pdu.py:463-467): the octets of the frame
MPDU_encode(self) == MPCI_encode(self) \o self.pduData

\* faulty variant of MPCI_decode: the length is not checked
MPCI_decode_Unchecked(self, pdu) ==
    IF Len(pdu.pduData) < 8 THEN DecodingError(self)
    ELSE Decoded([PCI_update(self, pdu) EXCEPT
             !.mpduTransactionID = get_short(pdu.pduData),
             !.mpduProtocolID = get_short(Drop(pdu.pduData, 2)),
             !.mpduLength = get_short(Drop(pdu.pduData, 4)),
             !.mpduUnitID = pdu.pduData[7],
             !.mpduFunctionCode = pdu.pduData[8],
             !.pduData = Drop(pdu.pduData, 8)])

\* MPCI.decode (pdu.py:429-443) on a PDU holding the octets of a frame; the
\* get and get_short calls raise DecodingError when the data runs out.  The
\* result keeps what is left of the data, for MPDU.decode.
MPCI_decode(self, pdu) ==
    IF Len(pdu.pduData) < 8 THEN DecodingError(self)
    ELSE LET mpci == [PCI_update(self, pdu) EXCEPT
                 !.mpduTransactionID = get_short(pdu.pduData),
                 !.mpduProtocolID = get_short(Drop(pdu.pduData, 2)),
                 !.mpduLength = get_short(Drop(pdu.pduData, 4)),
                 !.mpduUnitID = pdu.pduData[7],
                 !.mpduFunctionCode = pdu.pduData[8],
                 !.pduData = Drop(pdu.pduData, 8)]
         IN  IF mpci.mpduLength # Len(mpci.pduData) + 2
             THEN DecodingError(mpci)
             ELSE Decoded(mpci)

\* MPDU.decode (pdu.py:469-473): MPCI.decode, then the rest is the body
MPDU_decode(pdu) == MPCI_decode(MPDU_init, pdu)

\* a PDU as the director hands it up: the octets and where they came from
PDU(data, source) ==
    [pduSource |-> source, pduDestination |-> "None", pduData |-> data]

\* --------------------------------------------------- pdu.py: the PDU classes

\* the function codes (pdu.py:386-394)
readCoils == 1
readDiscreteInputs == 2
readMultipleRegisters == 3
readInputRegisters == 4
writeSingleCoil == 5
writeSingleRegister == 6
writeMultipleCoils == 15
writeMultipleRegisters == 16
readWriteMultipleRegisters == 23

\* ExceptionResponse codes (pdu.py:1178-1180)
ILLEGAL_FUNCTION == 1
ILLEGAL_DATA_ADDRESS == 2
ILLEGAL_DATA_VALUE == 3

\* an object of class klass with function code fc and the fields given
Object(klass, fc, fields) ==
    [MPCI_init EXCEPT !.mpduFunctionCode = fc] @@ [klass |-> klass] @@ fields

ReadCoilsRequest(address, count) ==
    Object("ReadCoilsRequest", readCoils,
           [address |-> address, count |-> count])
ReadCoilsResponse(values) ==
    Object("ReadCoilsResponse", readCoils, [bits |-> values])
ReadDiscreteInputsRequest(address, count) ==
    Object("ReadDiscreteInputsRequest", readDiscreteInputs,
           [address |-> address, count |-> count])
ReadDiscreteInputsResponse(values) ==
    Object("ReadDiscreteInputsResponse", readDiscreteInputs, [bits |-> values])
ReadMultipleRegistersRequest(address, count) ==
    Object("ReadMultipleRegistersRequest", readMultipleRegisters,
           [address |-> address, count |-> count])
ReadMultipleRegistersResponse(values) ==
    Object("ReadMultipleRegistersResponse", readMultipleRegisters,
           [registers |-> values])
ReadInputRegistersRequest(address, count) ==
    Object("ReadInputRegistersRequest", readInputRegisters,
           [address |-> address, count |-> count])
ReadInputRegistersResponse(values) ==
    Object("ReadInputRegistersResponse", readInputRegisters,
           [registers |-> values])
WriteSingleCoilRequest(address, value) ==
    Object("WriteSingleCoilRequest", writeSingleCoil,
           [address |-> address, value |-> value])
WriteSingleCoilResponse(address, value) ==
    Object("WriteSingleCoilResponse", writeSingleCoil,
           [address |-> address, value |-> value])
WriteSingleRegisterRequest(address, value) ==
    Object("WriteSingleRegisterRequest", writeSingleRegister,
           [address |-> address, value |-> value])
WriteSingleRegisterResponse(address, value) ==
    Object("WriteSingleRegisterResponse", writeSingleRegister,
           [address |-> address, value |-> value])
WriteMultipleCoilsRequest(address, count, coils) ==
    Object("WriteMultipleCoilsRequest", writeMultipleCoils,
           [address |-> address, count |-> count, coils |-> coils])
WriteMultipleCoilsResponse(address, count) ==
    Object("WriteMultipleCoilsResponse", writeMultipleCoils,
           [address |-> address, count |-> count])
WriteMultipleRegistersRequest(address, count, registers) ==
    Object("WriteMultipleRegistersRequest", writeMultipleRegisters,
           [address |-> address, count |-> count, registers |-> registers])
WriteMultipleRegistersResponse(address, count) ==
    Object("WriteMultipleRegistersResponse", writeMultipleRegisters,
           [address |-> address, count |-> count])
ReadWriteMultipleRegistersRequest(raddress, rcount, waddress, wcount, registers) ==
    Object("ReadWriteMultipleRegistersRequest", readWriteMultipleRegisters,
           [raddress |-> raddress, rcount |-> rcount, waddress |-> waddress,
            wcount |-> wcount, registers |-> registers])
ReadWriteMultipleRegistersResponse(registers) ==
    Object("ReadWriteMultipleRegistersResponse", readWriteMultipleRegisters,
           [registers |-> registers])
\* ExceptionResponse.__init__ (pdu.py:1187-1197): function + 128
ExceptionResponse(function, exceptionCode) ==
    Object("ExceptionResponse", function + 128,
           [exceptionCode |-> exceptionCode])

\* the request classes the server has no constructor defaults for: klass()
\* multiplies a list by count = None (pdu.py:907, 1091) and raises TypeError
NoDefault == {"WriteMultipleCoilsRequest", "ReadWriteMultipleRegistersRequest"}

\* klass(): the object a class constructs from its defaults, the fields a
\* decode method sets left at None
New(klass) ==
    CASE klass = "ReadCoilsRequest" -> ReadCoilsRequest(NoneInt, NoneInt)
      [] klass = "ReadCoilsResponse" -> ReadCoilsResponse(<<>>)
      [] klass = "ReadDiscreteInputsRequest" ->
             ReadDiscreteInputsRequest(NoneInt, NoneInt)
      [] klass = "ReadDiscreteInputsResponse" -> ReadDiscreteInputsResponse(<<>>)
      [] klass = "ReadMultipleRegistersRequest" ->
             ReadMultipleRegistersRequest(NoneInt, NoneInt)
      [] klass = "ReadMultipleRegistersResponse" ->
             ReadMultipleRegistersResponse(<<>>)
      [] klass = "ReadInputRegistersRequest" ->
             ReadInputRegistersRequest(NoneInt, NoneInt)
      [] klass = "ReadInputRegistersResponse" -> ReadInputRegistersResponse(<<>>)
      [] klass = "WriteSingleCoilRequest" ->
             WriteSingleCoilRequest(NoneInt, NoneInt)
      [] klass = "WriteSingleCoilResponse" ->
             WriteSingleCoilResponse(NoneInt, NoneInt)
      [] klass = "WriteSingleRegisterRequest" ->
             WriteSingleRegisterRequest(NoneInt, NoneInt)
      [] klass = "WriteSingleRegisterResponse" ->
             WriteSingleRegisterResponse(NoneInt, NoneInt)
      [] klass = "WriteMultipleCoilsRequest" ->
             WriteMultipleCoilsRequest(NoneInt, NoneInt, <<>>)
      [] klass = "WriteMultipleCoilsResponse" ->
             WriteMultipleCoilsResponse(NoneInt, NoneInt)
      [] klass = "WriteMultipleRegistersRequest" ->
             WriteMultipleRegistersRequest(NoneInt, NoneInt, <<>>)
      [] klass = "WriteMultipleRegistersResponse" ->
             WriteMultipleRegistersResponse(NoneInt, NoneInt)
      [] klass = "ReadWriteMultipleRegistersRequest" ->
             ReadWriteMultipleRegistersRequest(NoneInt, NoneInt, NoneInt,
                                               NoneInt, <<>>)
      [] klass = "ReadWriteMultipleRegistersResponse" ->
             ReadWriteMultipleRegistersResponse(<<>>)
      [] klass = "ExceptionResponse" ->
             [ExceptionResponse(0, NoneInt) EXCEPT !.mpduFunctionCode = NoneInt]

\* register_request_type / register_response_type (pdu.py:24-28): the class
\* registered for a function code, "None" when there is none
request_types(fc) ==
    CASE fc = readCoils -> "ReadCoilsRequest"
      [] fc = readDiscreteInputs -> "ReadDiscreteInputsRequest"
      [] fc = readMultipleRegisters -> "ReadMultipleRegistersRequest"
      [] fc = readInputRegisters -> "ReadInputRegistersRequest"
      [] fc = writeSingleCoil -> "WriteSingleCoilRequest"
      [] fc = writeSingleRegister -> "WriteSingleRegisterRequest"
      [] fc = writeMultipleCoils -> "WriteMultipleCoilsRequest"
      [] fc = writeMultipleRegisters -> "WriteMultipleRegistersRequest"
      [] fc = readWriteMultipleRegisters -> "ReadWriteMultipleRegistersRequest"
      [] OTHER -> "None"
response_types(fc) ==
    CASE fc = readCoils -> "ReadCoilsResponse"
      [] fc = readDiscreteInputs -> "ReadDiscreteInputsResponse"
      [] fc = readMultipleRegisters -> "ReadMultipleRegistersResponse"
      [] fc = readInputRegisters -> "ReadInputRegistersResponse"
      [] fc = writeSingleCoil -> "WriteSingleCoilResponse"
      [] fc = writeSingleRegister -> "WriteSingleRegisterResponse"
      [] fc = writeMultipleCoils -> "WriteMultipleCoilsResponse"
      [] fc = writeMultipleRegisters -> "WriteMultipleRegistersResponse"
      [] fc = readWriteMultipleRegisters -> "ReadWriteMultipleRegistersResponse"
      [] OTHER -> "None"

\* the registers loop of the encoders: put_short of each register
RECURSIVE put_shorts(_)
put_shorts(registers) ==
    IF registers = <<>> THEN <<>>
    ELSE put_short(Head(registers)) \o put_shorts(Tail(registers))

\* the registers loop of the decoders: n times get_short
RECURSIVE get_shorts(_, _)
get_shorts(data, n) ==
    IF n = 0 THEN <<>>
    ELSE <<get_short(data)>> \o get_shorts(Drop(data, 2), n - 1)

\* ReadBitsRequestBase.encode (pdu.py:494-500), and the encoders of the same
\* shape: ReadRegistersRequestBase.encode (566-572),
\* WriteMultipleCoilsResponse.encode (955-961),
\* WriteMultipleRegistersResponse.encode (1047-1053)
ReadBitsRequestBase_encode(self) ==
    Encoded(self, put_short(self.address) \o put_short(self.count))

\* ReadBitsRequestBase.decode (pdu.py:502-507), and the decoders of the same
\* shape (574-579, 963-968, 1055-1060)
ReadBitsRequestBase_decode(self, pdu) ==
    IF Len(pdu.pduData) < 4 THEN DecodingError(self)
    ELSE Decoded([MPCI_update(self, pdu) EXCEPT
                     !.address = get_short(pdu.pduData),
                     !.count = get_short(Drop(pdu.pduData, 2))])

\* ReadBitsResponseBase.encode (pdu.py:529-539)
ReadBitsResponseBase_encode(self) ==
    LET stringbits == _packBitsToString(self.bits)
    IN  Encoded(self, <<Len(stringbits)>> \o stringbits)

\* ReadBitsResponseBase.decode (pdu.py:541-546)
ReadBitsResponseBase_decode(self, pdu) ==
    IF Len(pdu.pduData) < 1 THEN DecodingError(self)
    ELSE LET datalen == pdu.pduData[1]
         IN  IF Len(pdu.pduData) < 1 + datalen THEN DecodingError(self)
             ELSE Decoded([MPCI_update(self, pdu) EXCEPT
                      !.bits = _unpackBitsFromString(
                                   SubSeq(pdu.pduData, 2, 1 + datalen))])

\* faulty variant of ReadRegistersResponseBase_encode: the length without
\* the unit ID and function code octets
ReadRegistersResponseBase_encode_BodyLength(self) ==
    [Encoded(self, <<Len(self.registers) * 2>> \o put_shorts(self.registers))
        EXCEPT !.mpduLength = Len(self.registers) * 2 + 1]

\* ReadRegistersResponseBase.encode (pdu.py:601-608), and
\* ReadWriteMultipleRegistersResponse.encode (1145-1152)
ReadRegistersResponseBase_encode(self) ==
    Encoded(self, <<Len(self.registers) * 2>> \o put_shorts(self.registers))

\* ReadRegistersResponseBase.decode (pdu.py:610-617), and
\* ReadWriteMultipleRegistersResponse.decode (1154-1161)
ReadRegistersResponseBase_decode(self, pdu) ==
    IF Len(pdu.pduData) < 1 THEN DecodingError(self)
    ELSE LET datalen == pdu.pduData[1]
         IN  IF Len(pdu.pduData) < 1 + 2 * (datalen \div 2)
             THEN DecodingError(self)
             ELSE Decoded([MPCI_update(self, pdu) EXCEPT
                      !.registers = get_shorts(Drop(pdu.pduData, 1),
                                               datalen \div 2)])

\* ReadWriteValueBase.encode (pdu.py:637-643)
ReadWriteValueBase_encode(self) ==
    Encoded(self, put_short(self.address) \o put_short(self.value))

\* ReadWriteValueBase.decode (pdu.py:645-650)
ReadWriteValueBase_decode(self, pdu) ==
    IF Len(pdu.pduData) < 4 THEN DecodingError(self)
    ELSE Decoded([MPCI_update(self, pdu) EXCEPT
                     !.address = get_short(pdu.pduData),
                     !.value = get_short(Drop(pdu.pduData, 2))])

\* WriteMultipleCoilsRequest.encode (pdu.py:909-920)
WriteMultipleCoilsRequest_encode(self) ==
    LET stringbits == _packBitsToString(self.coils)
    IN  Encoded(self, put_short(self.address) \o put_short(self.count)
                          \o <<Len(stringbits)>> \o stringbits)

\* WriteMultipleCoilsRequest.decode (pdu.py:922-932)
WriteMultipleCoilsRequest_decode(self, pdu) ==
    IF Len(pdu.pduData) < 5 THEN DecodingError(self)
    ELSE LET datalen == pdu.pduData[5]
             count == get_short(Drop(pdu.pduData, 2))
         IN  IF Len(pdu.pduData) < 5 + datalen THEN DecodingError(self)
             ELSE Decoded([MPCI_update(self, pdu) EXCEPT
                      !.address = get_short(pdu.pduData),
                      !.count = count,
                      !.coils = Take(_unpackBitsFromString(
                                    SubSeq(pdu.pduData, 6, 5 + datalen)),
                                    count)])

\* WriteMultipleRegistersRequest.encode (pdu.py:1001-1011)
WriteMultipleRegistersRequest_encode(self) ==
    Encoded(self, put_short(self.address) \o put_short(self.count)
                      \o <<Len(self.registers) * 2>>
                      \o put_shorts(self.registers))

\* WriteMultipleRegistersRequest.decode (pdu.py:1013-1024)
WriteMultipleRegistersRequest_decode(self, pdu) ==
    IF Len(pdu.pduData) < 5 THEN DecodingError(self)
    ELSE LET datalen == pdu.pduData[5]
         IN  IF Len(pdu.pduData) < 5 + 2 * (datalen \div 2)
             THEN DecodingError(self)
             ELSE Decoded([MPCI_update(self, pdu) EXCEPT
                      !.address = get_short(pdu.pduData),
                      !.count = get_short(Drop(pdu.pduData, 2)),
                      !.registers = get_shorts(Drop(pdu.pduData, 5),
                                               datalen \div 2)])

\* ReadWriteMultipleRegistersRequest.encode (pdu.py:1093-1106)
ReadWriteMultipleRegistersRequest_encode(self) ==
    Encoded(self, put_short(self.raddress) \o put_short(self.rcount)
                      \o put_short(self.waddress) \o put_short(self.wcount)
                      \o <<Len(self.registers) * 2>>
                      \o put_shorts(self.registers))

\* ReadWriteMultipleRegistersRequest.decode (pdu.py:1108-1120)
ReadWriteMultipleRegistersRequest_decode(self, pdu) ==
    IF Len(pdu.pduData) < 9 THEN DecodingError(self)
    ELSE LET datalen == pdu.pduData[9]
         IN  IF Len(pdu.pduData) < 9 + 2 * (datalen \div 2)
             THEN DecodingError(self)
             ELSE Decoded([MPCI_update(self, pdu) EXCEPT
                      !.raddress = get_short(pdu.pduData),
                      !.rcount = get_short(Drop(pdu.pduData, 2)),
                      !.waddress = get_short(Drop(pdu.pduData, 4)),
                      !.wcount = get_short(Drop(pdu.pduData, 6)),
                      !.registers = get_shorts(Drop(pdu.pduData, 9),
                                               datalen \div 2)])

\* ExceptionResponse.encode (pdu.py:1199-1204)
ExceptionResponse_encode(self) == Encoded(self, <<self.exceptionCode>>)

\* ExceptionResponse.decode (pdu.py:1206-1210)
ExceptionResponse_decode(self, pdu) ==
    IF Len(pdu.pduData) < 1 THEN DecodingError(self)
    ELSE Decoded([MPCI_update(self, pdu) EXCEPT
                     !.exceptionCode = pdu.pduData[1]])

\* the classes by the encode and decode methods they inherit or define
AddressCountClasses ==
    {"ReadCoilsRequest", "ReadDiscreteInputsRequest",
     "ReadMultipleRegistersRequest", "ReadInputRegistersRequest",
     "WriteMultipleCoilsResponse", "WriteMultipleRegistersResponse"}
BitsClasses == {"ReadCoilsResponse", "ReadDiscreteInputsResponse"}
RegistersClasses ==
    {"ReadMultipleRegistersResponse", "ReadInputRegistersResponse",
     "ReadWriteMultipleRegistersResponse"}
ValueClasses ==
    {"WriteSingleCoilRequest", "WriteSingleCoilResponse",
     "WriteSingleRegisterRequest", "WriteSingleRegisterResponse"}

\* self.encode(mpdu): the method of the object's class; the result is mpdu
encode(self) ==
    CASE self.klass \in AddressCountClasses -> ReadBitsRequestBase_encode(self)
      [] self.klass \in BitsClasses -> ReadBitsResponseBase_encode(self)
      [] self.klass \in RegistersClasses -> ReadRegistersResponseBase_encode(self)
      [] self.klass \in ValueClasses -> ReadWriteValueBase_encode(self)
      [] self.klass = "WriteMultipleCoilsRequest" ->
             WriteMultipleCoilsRequest_encode(self)
      [] self.klass = "WriteMultipleRegistersRequest" ->
             WriteMultipleRegistersRequest_encode(self)
      [] self.klass = "ReadWriteMultipleRegistersRequest" ->
             ReadWriteMultipleRegistersRequest_encode(self)
      [] self.klass = "ExceptionResponse" -> ExceptionResponse_encode(self)

\* self.decode(mpdu): the method of the object's class
decode(self, mpdu) ==
    CASE self.klass \in AddressCountClasses ->
             ReadBitsRequestBase_decode(self, mpdu)
      [] self.klass \in BitsClasses -> ReadBitsResponseBase_decode(self, mpdu)
      [] self.klass \in RegistersClasses ->
             ReadRegistersResponseBase_decode(self, mpdu)
      [] self.klass \in ValueClasses -> ReadWriteValueBase_decode(self, mpdu)
      [] self.klass = "WriteMultipleCoilsRequest" ->
             WriteMultipleCoilsRequest_decode(self, mpdu)
      [] self.klass = "WriteMultipleRegistersRequest" ->
             WriteMultipleRegistersRequest_decode(self, mpdu)
      [] self.klass = "ReadWriteMultipleRegistersRequest" ->
             ReadWriteMultipleRegistersRequest_decode(self, mpdu)
      [] self.klass = "ExceptionResponse" -> ExceptionResponse_decode(self, mpdu)

\* ModbusClient.indication / ModbusServer.indication (app.py:105-113,
\* 313-321): encode the object as an MPDU, the MPDU as the octets of a PDU
Frame(self) == MPDU_encode(encode(self))

\* ------------------------------------------------- client.py: the console

\* int(math.log10(register)) + 1 (client.py:196, 313): the number of decimal
\* digits of a register number of at least 1
RECURSIVE Digits(_)
Digits(register) == IF register < 10 THEN 1 ELSE 1 + Digits(register \div 10)

\* "decode the register into a type" (client.py:195-208, 312-325): the
\* register type and the register left, or no type when the command prints
\* "5 or 6 digit addresses please" and returns; math.log10 raises ValueError
\* on a register that is not positive
decodeRegister(register) ==
    IF register <= 0
    THEN [raised |-> "ValueError", typed |-> FALSE, registerType |-> 0,
          register |-> register]
    ELSE LET digits == Digits(register)
         IN  IF digits < 4
             THEN [raised |-> "none", typed |-> TRUE, registerType |-> 0,
                   register |-> register]
             ELSE IF digits = 5
             THEN [raised |-> "none", typed |-> TRUE,
                   registerType |-> register \div 10000,
                   register |-> register % 10000]
             ELSE IF digits = 6
             THEN [raised |-> "none", typed |-> TRUE,
                   registerType |-> register \div 100000,
                   register |-> register % 100000]
             ELSE [raised |-> "none", typed |-> FALSE, registerType |-> 0,
                   register |-> register]

\* what a console command did: the exception that ended it, the register
\* type and register it decoded, and the request it submitted, if any
Command(d, submitted, req) ==
    [raised |-> d.raised, typed |-> d.typed, registerType |-> d.registerType,
     register |-> d.register, submitted |-> submitted, req |-> req]
Submits(d, req, server_address, unitID) ==
    Command(d, TRUE, [req EXCEPT !.pduDestination = server_address,
                                 !.mpduUnitID = unitID])

\* ConsoleClient.do_read (client.py:153-268) up to request_io: the request
\* built from the register number and the count
do_read(server_address, unitID, register, rcount) ==
    LET d == decodeRegister(register)
    IN  IF d.raised # "none" \/ ~d.typed THEN Command(d, FALSE, MPCI_init)
        ELSE IF d.registerType = 0
        THEN Submits(d, ReadCoilsRequest(d.register - 1, rcount),
                     server_address, unitID)
        ELSE IF d.registerType = 1
        THEN Submits(d, ReadDiscreteInputsRequest(d.register - 1, 1),
                     server_address, unitID)
        ELSE IF d.registerType = 3
        THEN Submits(d, ReadInputRegistersRequest(d.register - 1, 1),
                     server_address, unitID)
        ELSE IF d.registerType = 4
        THEN Submits(d, ReadMultipleRegistersRequest(d.register - 1, rcount),
                     server_address, unitID)
        ELSE Command(d, FALSE, MPCI_init)

\* ConsoleClient.do_write (client.py:271-370) up to request_io
do_write(server_address, unitID, register, value) ==
    LET d == decodeRegister(register)
    IN  IF d.raised # "none" \/ ~d.typed THEN Command(d, FALSE, MPCI_init)
        ELSE IF d.registerType = 0
        THEN Submits(d, WriteSingleCoilRequest(d.register - 1, value),
                     server_address, unitID)
        ELSE IF d.registerType = 4
        THEN Submits(d, WriteSingleRegisterRequest(d.register - 1, value),
                     server_address, unitID)
        ELSE Command(d, FALSE, MPCI_init)

\* --------------------------------------------------- the codec, called alone

\* the bit lists packed: every list of at most MaxBits bits, and the 19 coils
\* of the read-coils example
MaxBits == 9
Coils19 ==
    <<TRUE, FALSE, TRUE, TRUE, FALSE, FALSE, TRUE, TRUE,
      TRUE, TRUE, FALSE, TRUE, FALSE, TRUE, TRUE, FALSE,
      TRUE, FALSE, TRUE>>
BitLists == UNION {[1 .. n -> BOOLEAN] : n \in 0 .. MaxBits} \cup {Coils19}

\* the field values of the objects encoded: 16-bit numbers, register lists of
\* at most MaxRegs registers, bit lists of at most MaxCoils bits, exception
\* codes, and the transaction and unit IDs put in the header
MaxRegs == 2
MaxCoils == 3
Shorts == {0, 3, 107, 65535}
RegisterLists == UNION {[1 .. n -> {0, 258, 65535}] : n \in 0 .. MaxRegs}
CoilLists == UNION {[1 .. n -> BOOLEAN] : n \in 0 .. MaxCoils}
ExceptionCodes == {ILLEGAL_FUNCTION, ILLEGAL_DATA_ADDRESS, ILLEGAL_DATA_VALUE}
Headers ==
    {[mpduTransactionID |-> 0, mpduUnitID |-> 0],
     [mpduTransactionID |-> 2, mpduUnitID |-> 17],
     [mpduTransactionID |-> 65535, mpduUnitID |-> 255]}

\* the objects of the classes built on an address and a count
AddressCountObjects ==
    {Object(k.klass, k.fc, [address |-> a, count |-> c]) :
        k \in {[klass |-> "ReadCoilsRequest", fc |-> readCoils],
               [klass |-> "ReadDiscreteInputsRequest", fc |-> readDiscreteInputs],
               [klass |-> "ReadMultipleRegistersRequest",
                fc |-> readMultipleRegisters],
               [klass |-> "ReadInputRegistersRequest", fc |-> readInputRegisters],
               [klass |-> "WriteMultipleCoilsResponse", fc |-> writeMultipleCoils],
               [klass |-> "WriteMultipleRegistersResponse",
                fc |-> writeMultipleRegisters]},
        a \in Shorts, c \in Shorts}
\* the objects of the classes built on an address and a value
ValueObjects ==
    {Object(k.klass, k.fc, [address |-> a, value |-> v]) :
        k \in {[klass |-> "WriteSingleCoilRequest", fc |-> writeSingleCoil],
               [klass |-> "WriteSingleCoilResponse", fc |-> writeSingleCoil],
               [klass |-> "WriteSingleRegisterRequest", fc |-> writeSingleRegister],
               [klass |-> "WriteSingleRegisterResponse",
                fc |-> writeSingleRegister]},
        a \in Shorts, v \in Shorts}
BitsObjects ==
    {ReadCoilsResponse(b) : b \in CoilLists}
        \cup {ReadDiscreteInputsResponse(b) : b \in CoilLists}
RegistersObjects ==
    {ReadMultipleRegistersResponse(r) : r \in RegisterLists}
        \cup {ReadInputRegistersResponse(r) : r \in RegisterLists}
        \cup {ReadWriteMultipleRegistersResponse(r) : r \in RegisterLists}
\* the write requests, built with count = the number of values they carry
WriteMultipleObjects ==
    {WriteMultipleCoilsRequest(a, Len(c), c) : a \in Shorts, c \in CoilLists}
        \cup {WriteMultipleRegistersRequest(a, Len(r), r) :
                 a \in Shorts, r \in RegisterLists}
ReadWriteObjects ==
    {ReadWriteMultipleRegistersRequest(ra, rc, wa, Len(r), r) :
        ra \in {0, 107}, rc \in {3}, wa \in {0, 65535}, r \in RegisterLists}
ExceptionObjects ==
    {ExceptionResponse(fc, e) :
        fc \in {readCoils, readWriteMultipleRegisters}, e \in ExceptionCodes}

\* the frames handed to MPCI.decode: a header with a length field L, followed
\* by n body octets, and the same cut short of a whole header
MaxLength == 5
MaxBody == 3
Body(n) == [k \in 1 .. n |-> k]
MBAPFrames ==
    {put_short(1) \o put_short(0) \o put_short(L) \o <<17, 3>> \o Body(n) :
        L \in 0 .. MaxLength \cup {258}, n \in 0 .. MaxBody}
CutFrames == {Take(f, n) : f \in MBAPFrames, n \in 0 .. 7}

\* the buffers handed to stream_to_packet: at most 6 + MaxTail octets with a
\* length field hi * 256 + lo
MaxTail == 4
Buffers ==
    {Take(<<17, 34, 51, 68, hi, lo>> \o Body(MaxTail), n) :
        hi \in {0, 1}, lo \in 0 .. MaxTail + 1, n \in 0 .. 6 + MaxTail}

\* no call yet
NoCall == [fn |-> "none"]

\* _unpackBitsFromString(_packBitsToString(bits))
PackBits(bits) ==
    /\ call = NoCall
    /\ call' = [fn |-> "_packBitsToString", arg |-> bits,
                packed |-> _packBitsToString(bits),
                unpacked |-> _unpackBitsFromString(_packBitsToString(bits))]
    /\ UNCHANGED <<clientVars, server>>

\* an object with header h is encoded into the octets of a frame
\* (app.py:105-113), and the frame is decoded again (app.py:127-145): the
\* generic decode, then klass() and its decode
EncodeDecode(obj, h) ==
    /\ call = NoCall
    /\ LET self == [obj EXCEPT !.mpduTransactionID = h.mpduTransactionID,
                               !.mpduUnitID = h.mpduUnitID]
           frame == Frame(self)
           mpdu == MPDU_decode(PDU(frame, "X"))
       IN  call' = [fn |-> "encode", arg |-> self, mpdu |-> encode(self),
                    frame |-> frame,
                    decoded |-> IF mpdu.raised # "none" THEN mpdu
                                ELSE decode(New(self.klass), mpdu.pdu)]
    /\ UNCHANGED <<clientVars, server>>

\* mpdu.decode(pdu) on the octets of a frame (app.py:128-129, 273-274)
DecodeFrame(data) ==
    /\ call = NoCall
    /\ call' = [fn |-> "MPDU.decode", arg |-> data,
                decoded |-> MPDU_decode(PDU(data, "X"))]
    /\ UNCHANGED <<clientVars, server>>

\* stream_to_packet on the buffered octets of a connection (app.py:99, 260)
StreamToPacket(data) ==
    /\ call = NoCall
    /\ call' = [fn |-> "stream_to_packet", arg |-> data,
                packet |-> stream_to_packet(data)]
    /\ UNCHANGED <<clientVars, server>>

\* the values packed: integers at and around the ends of the ranges of 8, 16
\* and 32 bits, and floats
Integers16 ==
    {-40000, -32769, -32768, -129, -1, 0, 1, 127, 255, 256, 4660, 32767,
     32768, 40000, 65535}
Integers32 ==
    {PyInt(hi, lo) :
        hi \in {-32769, -32768, -2, 1, 4660, 32767, 32768, 65535, 65536},
        lo \in {0, 22136, 65535}}
Floats ==
    {Float(0, 0, 0), Float(0, 127, 0), Float(1, 127, 0),
     Float(0, 128, 4194304), Float(1, 130, 1)}
PackValues == {Num(n) : n \in Integers16} \cup Integers32 \cup Floats

\* the register lists unpacked: at most MaxStructRegs registers for the
\* numbers, and for the strings at most MaxStrRegs registers holding the
\* letters A to E and zero octets, and two lists of the default six registers
MaxStructRegs == 2
MaxStrRegs == 3
Registers ==
    {0, 1, 255, 256, 16256, 32767, 32768, 33023, 65535}
StructRegisters == UNION {[1 .. n -> Registers] : n \in 0 .. MaxStructRegs}
StrRegisters ==
    UNION {[1 .. n -> {0, 65, 16640, 16706, 17220}] : n \in 0 .. MaxStrRegs}
        \cup {<<18533, 27756, 28416, 0, 0, 0>>,
              <<16706, 17220, 17734, 18248, 18762, 19200>>}

\* codec.unpack(codec.pack(value))
StructPack(dtype, value) ==
    /\ call = NoCall
    /\ LET packed == pack(dtype, value)
       IN  call' = [fn |-> "pack", dtype |-> dtype, arg |-> value,
                    packed |-> packed,
                    unpacked |-> IF packed.raised # "none" THEN packed
                                 ELSE unpack(dtype, packed.value)]
    /\ UNCHANGED <<clientVars, server>>

\* codec.unpack(registers) on the registers of a response (client.py:261-263)
StructUnpack(dtype, registers) ==
    /\ call = NoCall
    /\ call' = [fn |-> "unpack", dtype |-> dtype, arg |-> registers,
                unpacked |-> unpack(dtype, registers)]
    /\ UNCHANGED <<clientVars, server>>

\* the register numbers typed at the console: of 1 to MaxDigits digits, at
\* and around the powers of ten, with each type digit, and 0
MaxDigits == 7
Powers == {10 ^ k : k \in 0 .. MaxDigits - 1}
RegisterNumbers ==
    {0} \cup Powers \cup {p * 10 - 1 : p \in Powers}
        \cup {7, 42, 1234, 10001, 20001, 30005, 40001, 40100, 100001,
              300017, 400001, 465536}
UnitIDs == {1, 17}

\* read <addr> <unitID> <register> [<count>] at the console
ConsoleRead(unitID, register, rcount) ==
    /\ call = NoCall
    /\ call' = [fn |-> "do_read", arg |-> register, unitID |-> unitID,
                rcount |-> rcount]
               @@ do_read("X", unitID, register, rcount)
    /\ UNCHANGED <<clientVars, server>>

\* write <addr> <unitID> <register> <value> at the console
ConsoleWrite(unitID, register, value) ==
    /\ call = NoCall
    /\ call' = [fn |-> "do_write", arg |-> register, unitID |-> unitID,
                value |-> value]
               @@ do_write("X", unitID, register, value)
    /\ UNCHANGED <<clientVars, server>>

\* ---------------------------------------------------------------- server.py

\* SimpleServer.__init__ (server.py:46-55): unit number 1, ten coils and ten
\* registers.  A coil is False at first and 0 or 1 once written; Python takes
\* False and 0 for equal, and the model writes 0 for both.
SimpleServer_init ==
    [unitNumber |-> 1,
     coils |-> [i \in 1 .. 10 |-> 0],
     registers |-> [i \in 1 .. 10 |-> 0]]

\* the truth value of a coil, as _packBitsToString tests it (if bit:)
Truth(coils) == [i \in DOMAIN coils |-> coils[i] # 0]

\* what a do_ method did: the server it leaves, the exception it raised
\* (with the error code of a ModbusException) or the response it returned,
\* and the trace of what it did in order: the hooks it called and its reads
\* and writes of the store
Returns(s, resp) ==
    [server |-> s, raised |-> "none", errCode |-> 0, resp |-> resp,
     trace |-> <<>>]
Raises(s, exc, errCode) ==
    [server |-> s, raised |-> exc, errCode |-> errCode, resp |-> MPCI_init,
     trace |-> <<>>]
Traced(r, trace) == [r EXCEPT !.trace = trace]

\* a call of one of the hooks pull_coils, push_coils, pull_registers and
\* push_registers (server.py:94-110), which do nothing themselves, and a read
\* or a write of count places of the store from address on
Hook(name, address, count) ==
    [op |-> name, address |-> address, count |-> count]
Access(op, address, count) ==
    [op |-> op, address |-> address, count |-> count]

\* do_ReadCoilsRequest (server.py:114-121)
do_ReadCoilsRequest(s, req) ==
    IF req.address + req.count > Len(s.coils)
    THEN Raises(s, "ModbusException", ILLEGAL_DATA_ADDRESS)
    ELSE Traced(Returns(s, ReadCoilsResponse(
             Truth(SubSeq(s.coils, req.address + 1, req.address + req.count)))),
             <<Hook("pull_coils", req.address, req.count),
               Access("read", req.address, req.count)>>)

\* do_WriteSingleCoilRequest (server.py:123-139)
do_WriteSingleCoilRequest(s, req) ==
    IF req.address > Len(s.coils)
    THEN Raises(s, "ModbusException", ILLEGAL_DATA_ADDRESS)
    ELSE IF req.value \notin {0, 65280}
    THEN Raises(s, "ModbusException", ILLEGAL_DATA_VALUE)
    ELSE IF req.address >= Len(s.coils)
    THEN Raises(s, "IndexError", 0)
    ELSE Traced(Returns([s EXCEPT !.coils[req.address + 1] =
                                      IF req.value = 0 THEN 0 ELSE 1],
                        WriteSingleCoilResponse(req.address, req.value)),
                <<Access("write", req.address, 1),
                  Hook("push_coils", req.address, 1)>>)

\* do_ReadMultipleRegistersRequest (server.py:154-161), and
\* do_ReadInputRegistersRequest (server.py:191-198), which returns a
\* ReadMultipleRegistersResponse as well
do_ReadMultipleRegistersRequest(s, req) ==
    IF req.address + req.count > Len(s.registers)
    THEN Raises(s, "ModbusException", ILLEGAL_DATA_ADDRESS)
    ELSE Traced(Returns(s, ReadMultipleRegistersResponse(
             SubSeq(s.registers, req.address + 1, req.address + req.count))),
             <<Hook("pull_registers", req.address, req.count),
               Access("read", req.address, req.count)>>)

\* do_WriteSingleRegisterRequest (server.py:163-174)
do_WriteSingleRegisterRequest(s, req) ==
    IF req.address > Len(s.registers)
    THEN Raises(s, "ModbusException", ILLEGAL_DATA_ADDRESS)
    ELSE IF req.address >= Len(s.registers)
    THEN Raises(s, "IndexError", 0)
    ELSE Traced(Returns([s EXCEPT !.registers[req.address + 1] = req.value],
                        WriteSingleRegisterResponse(req.address, req.value)),
                <<Access("write", req.address, 1),
                  Hook("push_registers", req.address, 1)>>)

\* the loop of do_WriteMultipleRegistersRequest (server.py:182-183) from
\* index i on: it stops with IndexError when the request has no register i
RECURSIVE saveValues(_, _, _)
saveValues(s, req, i) ==
    IF i >= req.count
    THEN Traced(Returns(s, MPCI_init),
                [k \in 1 .. i |-> Access("write", req.address + k - 1, 1)])
    ELSE IF i >= Len(req.registers)
    THEN Traced(Raises(s, "IndexError", 0),
                [k \in 1 .. i |-> Access("write", req.address + k - 1, 1)])
    ELSE saveValues([s EXCEPT !.registers[req.address + i + 1] =
                                  req.registers[i + 1]], req, i + 1)

\* do_WriteMultipleRegistersRequest (server.py:176-187)
do_WriteMultipleRegistersRequest(s, req) ==
    IF req.address + req.count > Len(s.registers)
    THEN Raises(s, "ModbusException", ILLEGAL_DATA_ADDRESS)
    ELSE LET r == saveValues(s, req, 0)
         IN  IF r.raised # "none" THEN r
             ELSE Traced(Returns(r.server,
                                 WriteMultipleRegistersResponse(req.address,
                                                                req.count)),
                         r.trace \o <<Hook("push_registers", req.address,
                                           req.count)>>)

\* getattr(self, "do_" + req.__class__.__name__) (server.py:73-77): the
\* classes SimpleServer has a method for; the method for discrete inputs is
\* named do_ReadDescreteInputsRequest and is not found
Handled ==
    {"ReadCoilsRequest", "WriteSingleCoilRequest",
     "ReadMultipleRegistersRequest", "WriteSingleRegisterRequest",
     "WriteMultipleRegistersRequest", "ReadInputRegistersRequest"}

\* fn(req) (server.py:80)
do(s, req) ==
    CASE req.klass = "ReadCoilsRequest" -> do_ReadCoilsRequest(s, req)
      [] req.klass = "WriteSingleCoilRequest" -> do_WriteSingleCoilRequest(s, req)
      [] req.klass \in {"ReadMultipleRegistersRequest",
                        "ReadInputRegistersRequest"} ->
             do_ReadMultipleRegistersRequest(s, req)
      [] req.klass = "WriteSingleRegisterRequest" ->
             do_WriteSingleRegisterRequest(s, req)
      [] req.klass = "WriteMultipleRegistersRequest" ->
             do_WriteMultipleRegistersRequest(s, req)

\* what a handler of the server did: the server it leaves, the exception that
\* left it, whether the request was passed up to the application, what was
\* handed down for sending, and the trace of the do_ method that ran
Outcome(s, raised, passed, sent) ==
    [server |-> s, raised |-> raised, passed |-> passed, sent |-> sent,
     trace |-> <<>>]

\* ModbusServer.indication (app.py:309-324): the response is encoded and the
\* octets are handed to the director
ModbusServer_indication(resp) ==
    [pduDestination |-> resp.pduDestination, encoded |-> TRUE,
     frame |-> Frame(resp), obj |-> resp]

\* SimpleServer.confirmation (server.py:57-92)
SimpleServer_confirmation(s, req) ==
    IF req.mpduUnitID # s.unitNumber THEN Outcome(s, "none", TRUE, <<>>)
    ELSE LET r == IF req.klass \notin Handled
                  THEN Raises(s, "ModbusException", ILLEGAL_FUNCTION)
                  ELSE do(s, req)
         IN  IF r.raised \notin {"none", "ModbusException"}
             THEN Traced(Outcome(r.server, r.raised, TRUE, <<>>), r.trace)
             ELSE LET resp == IF r.raised = "ModbusException"
                              THEN ExceptionResponse(req.mpduFunctionCode,
                                                     r.errCode)
                              ELSE r.resp
                      resp1 == [resp EXCEPT
                                   !.pduDestination = req.pduSource,
                                   !.mpduTransactionID = req.mpduTransactionID]
                  IN  Traced(Outcome(r.server, "none", TRUE,
                                     <<ModbusServer_indication(resp1)>>),
                             r.trace)

\* ModbusServer.confirmation (app.py:263-307) on the octets of a frame.  For a
\* function code with no request class it hands the ExceptionResponse object
\* itself to self.request (app.py:300), not through indication, and goes on
\* to klass() with klass = None, a TypeError.
ModbusServer_confirmation(s, pdu) ==
    LET m == MPDU_decode(pdu)
        mpdu == m.pdu
        klass == request_types(mpdu.mpduFunctionCode)
    IN  IF m.raised # "none" THEN Outcome(s, m.raised, FALSE, <<>>)
        ELSE IF mpdu.mpduProtocolID # 0 THEN Outcome(s, "none", FALSE, <<>>)
        ELSE IF mpdu.mpduFunctionCode >= 128 THEN Outcome(s, "none", FALSE, <<>>)
        ELSE IF klass = "None"
        THEN LET resp == [ExceptionResponse(mpdu.mpduFunctionCode,
                                            ILLEGAL_FUNCTION) EXCEPT
                             !.pduDestination = mpdu.pduSource,
                             !.mpduTransactionID = mpdu.mpduTransactionID]
             IN  Outcome(s, "TypeError", FALSE,
                         <<[pduDestination |-> resp.pduDestination,
                            encoded |-> FALSE, frame |-> <<>>, obj |-> resp]>>)
        ELSE IF klass \in NoDefault THEN Outcome(s, "TypeError", FALSE, <<>>)
        ELSE LET req == decode(New(klass), mpdu)
             IN  IF req.raised # "none"
                 THEN Outcome(s, req.raised, FALSE, <<>>)
                 ELSE SimpleServer_confirmation(s, req.pdu)

\* the frames the server receives: requests of every class for unit 1 and
\* for another unit, with addresses at and around the end of the ten coils
\* and registers and values the server takes and refuses
ServerHeaders ==
    {[mpduTransactionID |-> 0, mpduUnitID |-> 1],
     [mpduTransactionID |-> 7, mpduUnitID |-> 1],
     [mpduTransactionID |-> 7, mpduUnitID |-> 2]}
ServerRequests ==
    {ReadCoilsRequest(0, 3), ReadCoilsRequest(9, 1), ReadCoilsRequest(9, 2),
     ReadDiscreteInputsRequest(0, 1), ReadDiscreteInputsRequest(9, 2),
     ReadMultipleRegistersRequest(0, 2), ReadMultipleRegistersRequest(9, 2),
     ReadInputRegistersRequest(0, 1), ReadInputRegistersRequest(9, 2),
     WriteSingleCoilRequest(0, 65280), WriteSingleCoilRequest(0, 0),
     WriteSingleCoilRequest(1, 65280), WriteSingleCoilRequest(0, 5),
     WriteSingleCoilRequest(10, 65280), WriteSingleCoilRequest(11, 65280),
     WriteSingleCoilRequest(10, 5), WriteSingleCoilRequest(11, 5),
     WriteSingleRegisterRequest(0, 258), WriteSingleRegisterRequest(1, 65535),
     WriteSingleRegisterRequest(10, 1), WriteSingleRegisterRequest(11, 1),
     WriteMultipleRegistersRequest(0, 2, <<258, 3>>),
     WriteMultipleRegistersRequest(9, 2, <<1, 1>>),
     WriteMultipleRegistersRequest(0, 2, <<7>>),
     WriteMultipleCoilsRequest(0, 2, <<TRUE, FALSE>>),
     ReadWriteMultipleRegistersRequest(0, 1, 0, 1, <<5>>)}
\* frames that are no request: function codes 7 and 100, which have no
\* request class, protocolID 1, a function code above 127, and a
\* ReadMultipleRegisters request cut short of its count
OtherFrames ==
    {<<0, 7, 0, 0, 0, 2, 1, 7>>, <<0, 0, 0, 0, 0, 3, 2, 100, 9>>,
     <<0, 7, 0, 1, 0, 2, 1, 3>>, <<0, 7, 0, 0, 0, 3, 1, 131, 2>>,
     <<0, 7, 0, 0, 0, 4, 1, 3, 0, 0>>}
ServerFrames ==
    {Frame([req EXCEPT !.mpduTransactionID = h.mpduTransactionID,
                       !.mpduUnitID = h.mpduUnitID]) :
        req \in ServerRequests, h \in ServerHeaders} \cup OtherFrames

\* the director delivers a frame received from a client; the handlers run to
\* the end: ModbusServer.confirmation, SimpleServer.confirmation and
\* ModbusServer.indication
ServerRequest(source, data) ==
    /\ LET r == ModbusServer_confirmation(server, PDU(data, source))
       IN  /\ server' = r.server
           /\ call' = [fn |-> "ModbusServer.confirmation", arg |-> data,
                       source |-> source, raised |-> r.raised,
                       passed |-> r.passed, sent |-> r.sent,
                       trace |-> r.trace]
    /\ UNCHANGED clientVars


\* ------------------------------------------------- bacpypes.iocb, inherited

\* IOCB.trigger (called at app.py:223, 237): set the completion event, run
\* the callbacks; here: record the notification
IOCB_trigger(w, i) ==
    [w EXCEPT !.notified[w.iocb[i].dest] = Append(@, i)]

\* IOController.complete_io: a finished IOCB is left alone
IOController_complete_io(w, i, msg) ==
    IF w.iocb[i].ioState \in {COMPLETED, ABORTED}
    THEN w
    ELSE IOCB_trigger([w EXCEPT !.iocb[i].ioState = COMPLETED,
                                !.iocb[i].ioResponse = msg], i)

\* IOController.abort_io: a finished IOCB is left alone
IOController_abort_io(w, i, err) ==
    IF w.iocb[i].ioState \in {COMPLETED, ABORTED}
    THEN w
    ELSE IOCB_trigger([w EXCEPT !.iocb[i].ioState = ABORTED,
                                !.iocb[i].ioError = err], i)

\* IOQController.complete_io (called at client.py:127 with the active iocb):
\* complete, forget the active iocb, go idle, defer a call of _trigger
IOQController_complete_io(w, d, i, msg) ==
    LET w1 == IOController_complete_io(w, i, msg)
    IN  [w1 EXCEPT !.queues[d].active_iocb = 0,
                   !.queues[d].state = CTRL_IDLE,
                   !.queues[d].trig = @ + 1]

\* IOQController.abort_io (called at client.py:125): abort; when it was the
\* active iocb forget it, go idle, defer a call of _trigger
IOQController_abort_io(w, d, i, err) ==
    LET w1 == IOController_abort_io(w, i, err)
    IN  IF i # w1.queues[d].active_iocb
        THEN w1
        ELSE [w1 EXCEPT !.queues[d].active_iocb = 0,
                        !.queues[d].state = CTRL_IDLE,
                        !.queues[d].trig = @ + 1]

\* IOQController.active_io (called at client.py:61)
IOQController_active_io(w, d, i) ==
    IF w.iocb[i].ioState \notin {IDLE, PENDING}
    THEN Raise(w, "RuntimeError")
    ELSE Ok([w EXCEPT !.iocb[i].ioState = ACTIVE,
                      !.queues[d].state = CTRL_ACTIVE,
                      !.queues[d].active_iocb = i])

\* ------------------------------------------------------------ app.py, client.py

\* ModbusClient.indication: encode the request as an MPDU, then as a PDU, and
\* pass it to the director.  put_short raises on a field outside 0..65535.
\* Nothing on the way assigns mpduTransactionID: the frame carries the value
\* the request was constructed with.
ModbusClient_indication(w, i) ==
    IF ~w.iocb[i].encodable
    THEN Raise(w, "struct.error")
    ELSE Ok([w EXCEPT !.wire[w.iocb[i].dest] =
                          Append(@, [id |-> i, tx |-> w.iocb[i].tx])])

\* faulty variant of QController_process_io: the request is sent without becoming
\* the controller's active request
QController_process_io_NotActive(w, d, i) ==
    ModbusClient_indication(w, i)

\* QController.process_io: the iocb becomes the active request and is sent
QController_process_io(w, d, i) ==
    LET r == IOQController_active_io(w, d, i)
    IN  IF r.raised # "none" THEN r ELSE ModbusClient_indication(r.w, i)

\* IOQController.request_io (called at client.py:96): queue the iocb when the
\* controller is busy, otherwise process it; an error of process_io aborts it
IOQController_request_io(w, d, i) ==
    IF w.queues[d].state # CTRL_IDLE
    THEN [w EXCEPT !.iocb[i].ioState = PENDING,
                   !.queues[d].ioQueue = Append(@, i)]
    ELSE LET r == QController_process_io(w, d, i)
         IN  IF r.raised # "none"
             THEN IOQController_abort_io(r.w, d, i, [what |-> r.raised, tx |-> 0])
             ELSE r.w

\* Controller.process_io: look up or create the destination's controller and
\* ask it to process or queue the request
Controller_process_io(w, i) ==
    LET d == w.iocb[i].dest
        w1 == IF ~w.queues[d].present
              THEN [w EXCEPT !.queues[d] = NewQueue]
              ELSE w
    IN  IOQController_request_io(w1, d, i)

\* IOController.request_io (called at client.py:238, 353): bind, set PENDING,
\* process_io
IOController_request_io(w, i) ==
    Controller_process_io([w EXCEPT !.iocb[i].ioState = PENDING], i)

\* IOQController._trigger, the call deferred by complete_io / abort_io
\* ("called for the next IOCB when the current request has been satisfied",
\* client.py:55-57): when idle and something is queued, process the head
IOQController_trigger(w, d) ==
    LET q == w.queues[d]
    IN  IF q.state # CTRL_IDLE THEN w
        ELSE IF q.ioQueue = <<>> THEN w
        ELSE LET i == Head(q.ioQueue)
                 w1 == [w EXCEPT !.queues[d].ioQueue = Tail(@)]
                 r == QController_process_io(w1, d, i)
                 w2 == IF r.raised # "none"
                       THEN IOQController_abort_io(r.w, d, i,
                                [what |-> r.raised, tx |-> 0])
                       ELSE r.w
             IN  IF w2.queues[d].state = CTRL_IDLE
                 THEN [w2 EXCEPT !.queues[d].trig = @ + 1]
                 ELSE w2

\* the tail of Controller.confirmation and of ModbusClientController.abort:
\* "if the queue is empty and idle, forget about the controller".  The
\* deferred _trigger calls of a forgotten controller find its queue empty;
\* they go with it.
ForgetIfEmpty(w, d) ==
    IF w.queues[d].ioQueue = <<>> /\ w.queues[d].active_iocb = 0
    THEN [w EXCEPT !.queues[d] = NoQueue]
    ELSE w

\* faulty variant of Controller_confirmation: a frame that finds no active
\* request makes the controller forget the queue of the peer
Controller_confirmation_Forgets(w, d, pdu) ==
    IF ~w.queues[d].present THEN w
    ELSE IF w.queues[d].active_iocb = 0 THEN [w EXCEPT !.queues[d] = NoQueue]
    ELSE LET a == w.queues[d].active_iocb
             w1 == IF pdu.what = "exc"
                   THEN IOQController_abort_io(w, d, a, pdu)
                   ELSE IOQController_complete_io(w, d, a, pdu)
         IN  ForgetIfEmpty(w1, d)

\* Controller.confirmation (client.py): a PDU from ModbusClient; pdu.what is
\* "exc" for an ExceptionResponse and "resp" for any other response
Controller_confirmation(w, d, pdu) ==
    IF ~w.queues[d].present THEN w
    ELSE IF w.queues[d].active_iocb = 0 THEN w
    ELSE LET a == w.queues[d].active_iocb
             w1 == IF pdu.what = "exc"
                   THEN IOQController_abort_io(w, d, a, pdu)
                   ELSE IOQController_complete_io(w, d, a, pdu)
         IN  ForgetIfEmpty(w1, d)

\* SieveClientController.confirmation, inherited by ModbusClientController:
\* as above, but the request is aborted only by a PDU that is a Python
\* Exception; a decoded response, ExceptionResponse included, completes it
SieveClientController_confirmation(w, d, pdu) ==
    IF ~w.queues[d].present THEN w
    ELSE IF w.queues[d].active_iocb = 0 THEN w
    ELSE LET a == w.queues[d].active_iocb
             w1 == IOQController_complete_io(w, d, a, pdu)
         IN  ForgetIfEmpty(w1, d)

\* ModbusClient.confirmation: a frame from the director.  Returns the new
\* world, the exception that left the handler and whether a PDU went upward.
ModbusClient_confirmation(w, k, d, f) ==
    IF ~f.lenOK
    THEN [w |-> w, raised |-> "DecodingError", delivered |-> FALSE]
    ELSE IF f.proto # 0
    THEN [w |-> w, raised |-> "none", delivered |-> FALSE]
    ELSE IF f.fc = "unk"
    THEN [w |-> w, raised |-> "none", delivered |-> FALSE]
    ELSE IF f.fc = "short"
    THEN [w |-> w, raised |-> "DecodingError", delivered |-> FALSE]
    ELSE LET pdu == [what |-> f.fc, tx |-> f.tx]
         IN  [w |-> IF k = "client"
                    THEN Controller_confirmation(w, d, pdu)
                    ELSE SieveClientController_confirmation(w, d, pdu),
              raised |-> "none", delivered |-> TRUE]

\* the loop of ModbusClientController.abort over queue.ioQueue.get(block=0)
RECURSIVE AbortRest(_, _, _)
AbortRest(w, d, err) ==
    IF w.queues[d].ioQueue = <<>> THEN w
    ELSE LET i == Head(w.queues[d].ioQueue)
             w1 == [w EXCEPT !.queues[d].ioQueue = Tail(@),
                             !.iocb[i].ioState = ABORTED,
                             !.iocb[i].ioError = err]
         IN  AbortRest(IOCB_trigger(w1, i), d, err)

\* the first part of ModbusClientController.abort: "if it has an active
\* iocb, abort it"; queue.active_iocb and queue.state are not touched
AbortActive(w, d, err) ==
    LET a == w.queues[d].active_iocb
    IN  IF a # 0
        THEN IOCB_trigger([w EXCEPT !.iocb[a].ioState = ABORTED,
                                    !.iocb[a].ioError = err], a)
        ELSE w

\* faulty variant of ModbusClientController_abort: the requests of every
\* destination are aborted
ModbusClientController_abort_AllPeers(w, address, err) ==
    LET one(w0, d) ==
            IF ~w0.queues[d].present THEN w0
            ELSE ForgetIfEmpty(AbortRest(AbortActive(w0, d, err), d, err), d)
        other == CHOOSE y \in Peers : y # address
    IN  one(one(w, address), other)

\* faulty variant of ModbusClientController_abort: the pending requests are not aborted
ModbusClientController_abort_ActiveOnly(w, address, err) ==
    IF ~w.queues[address].present THEN w
    ELSE ForgetIfEmpty(AbortActive(w, address, err), address)

\* ModbusClientController.abort
ModbusClientController_abort(w, address, err) ==
    IF ~w.queues[address].present THEN w
    ELSE ForgetIfEmpty(AbortRest(AbortActive(w, address, err), address, err),
                       address)

\* faulty variant of ModbusClientASE_del_actor: a clean close aborts nothing
ModbusClientASE_del_actor_Ignored(w, d) == w

\* ModbusClientASE.indication(del_actor=...): "tell the controller to abort all
\* current and pending requests" with RuntimeError("connection closed")
ModbusClientASE_del_actor(w, d) ==
    ModbusClientController_abort(w, d, connection_closed)

\* ModbusClientASE.indication(actor_error=..., error=...): abort with the
\* director's error (then the director is told to disconnect the peer)
ModbusClientASE_actor_error(w, d, err) ==
    ModbusClientController_abort(w, d, err)

\* ------------------------------------------------------------------ actions

NoEvent ==
    [op |-> "init", peer |-> "none", frame |-> NoFrame, err |-> None,
     raised |-> "none", delivered |-> FALSE, disconnect |-> FALSE,
     changed |-> FALSE]

\* the state after construction: no request submitted, no controller, no
\* connection
Constructed ==
    /\ kind \in Kinds
    /\ nIocb = 0
    /\ iocb = [i \in IocbIds |-> NoIocb]
    /\ queues = [d \in Peers |-> NoQueue]
    /\ conn = [d \in Peers |-> "down"]
    /\ wire = [d \in Peers |-> <<>>]
    /\ notified = [d \in Peers |-> <<>>]
    /\ last = NoEvent
    /\ call = NoCall
    /\ server = SimpleServer_init

Init == Constructed /\ observing = FALSE
InitObs == Constructed /\ observing = TRUE

\* the number of requests the application submits in a run
Cap == IF observing THEN MaxObsReq ELSE MaxReq

\* record what the handler did; `changed` says whether it changed anything
\* of the controller's state
Record(ev, w) ==
    last' = IF observing THEN [ev EXCEPT !.changed = (w # World)] ELSE NoEvent

\* the handlers' result becomes the state
Becomes(w) ==
    /\ iocb' = w.iocb
    /\ queues' = w.queues
    /\ wire' = w.wire
    /\ notified' = w.notified

\* the director opens a connection to a destination when it is handed a
\* frame for it (TCPClientDirector, app.py:98)
Connected(w) ==
    [d \in Peers |-> IF Len(w.wire[d]) > Len(wire[d]) THEN "up" ELSE conn[d]]

\* the application builds a request for destination d (client.py:214-235)
\* and submits it: controller.request_io(iocb)
Submit(d, enc) ==
    /\ nIocb < Cap
    /\ LET i == nIocb + 1
           w0 == [World EXCEPT !.iocb[i] =
                      [NoIocb EXCEPT !.dest = d, !.encodable = enc,
                                     !.tx = MPCI_init_TransactionID]]
           w1 == IOController_request_io(w0, i)
       IN  /\ Becomes(w1) /\ conn' = Connected(w1)
           /\ Record([NoEvent EXCEPT !.op = "submit", !.peer = d], w1)
    /\ nIocb' = nIocb + 1
    /\ UNCHANGED <<kind, observing, call, server>>

\* a deferred IOQController._trigger call of d's controller runs
Trigger(d) ==
    /\ queues[d].present
    /\ queues[d].trig > 0
    /\ LET w1 == IOQController_trigger(
                     [World EXCEPT !.queues[d].trig = @ - 1], d)
       IN  /\ Becomes(w1) /\ conn' = Connected(w1)
           /\ Record([NoEvent EXCEPT !.op = "trigger", !.peer = d], w1)
    /\ UNCHANGED <<kind, nIocb, observing, call, server>>

\* the director delivers a frame received from peer d, a peer it has sent a
\* request to; the delivery is deferred by the event loop and may come after
\* an actor event of the peer
Inbound(d, f) ==
    /\ wire[d] # <<>>
    /\ LET r == ModbusClient_confirmation(World, kind, d, f)
       IN  /\ Becomes(r.w)
           /\ Record([NoEvent EXCEPT !.op = "confirmation", !.peer = d,
                                     !.frame = f, !.raised = r.raised,
                                     !.delivered = r.delivered], r.w)
    /\ UNCHANGED <<kind, nIocb, conn, observing, call, server>>

\* ModbusClientASE.indication(actor_error=..., error=...): abort, then tell
\* the director to disconnect.  Only ModbusClientController binds an ASE.
ActorErrorEvent(d, e) ==
    /\ conn[d] = "up"
    /\ IF kind = "app"
       THEN LET w1 == ModbusClientASE_actor_error(World, d, actor_error(e))
            IN  /\ Becomes(w1)
                /\ Record([NoEvent EXCEPT !.op = "actor_error", !.peer = d,
                                          !.err = actor_error(e),
                                          !.disconnect = TRUE], w1)
       ELSE /\ Becomes(World)
            /\ Record([NoEvent EXCEPT !.op = "unheard", !.peer = d], World)
    /\ conn' = [conn EXCEPT ![d] = "closing"]
    /\ UNCHANGED <<kind, nIocb, observing, call, server>>

\* ModbusClientASE.indication(del_actor=...): the connection closed
ActorRemovedEvent(d) ==
    /\ conn[d] # "down"
    /\ IF kind = "app"
       THEN LET w1 == ModbusClientASE_del_actor(World, d)
            IN  /\ Becomes(w1)
                /\ Record([NoEvent EXCEPT !.op = "del_actor", !.peer = d,
                                          !.err = connection_closed], w1)
       ELSE /\ Becomes(World)
            /\ Record([NoEvent EXCEPT !.op = "unheard", !.peer = d], World)
    /\ conn' = [conn EXCEPT ![d] = "down"]
    /\ UNCHANGED <<kind, nIocb, observing, call, server>>

Next ==
    \/ \E d \in Peers, enc \in BOOLEAN : Submit(d, enc)
    \/ \E d \in Peers : Trigger(d)
    \/ \E d \in Peers, f \in Frames : Inbound(d, f)
    \/ \E d \in Peers, e \in ActorErrors : ActorErrorEvent(d, e)
    \/ \E d \in Peers : ActorRemovedEvent(d)

Spec == Init /\ [][Next]_vars

\* the same program with the handlers' outcomes recorded
SpecObs == InitObs /\ [][Next]_vars

\* ------------------------------------------------ the codec functions alone

InitCodec == Constructed /\ kind = "client" /\ observing = FALSE

NextCodec ==
    \/ \E bits \in BitLists : PackBits(bits)
    \/ \E obj \in AddressCountObjects \cup ValueObjects \cup BitsObjects
                      \cup RegistersObjects \cup WriteMultipleObjects
                      \cup ReadWriteObjects \cup ExceptionObjects,
          h \in Headers : EncodeDecode(obj, h)
    \/ \E data \in MBAPFrames \cup CutFrames : DecodeFrame(data)
    \/ \E data \in Buffers : StreamToPacket(data)
    \/ \E dtype \in ModbusStruct, value \in PackValues : StructPack(dtype, value)
    \/ \E dtype \in ModbusStruct,
          registers \in StructRegisters \cup StrRegisters :
            StructUnpack(dtype, registers)
    \/ \E unitID \in UnitIDs, register \in RegisterNumbers, rcount \in {1, 3} :
            ConsoleRead(unitID, register, rcount)
    \/ \E unitID \in UnitIDs, register \in RegisterNumbers,
          value \in {0, 7, 65280} :
            ConsoleWrite(unitID, register, value)

\* the codec functions of pdu.py and app.py, each called once on an input
SpecCodec == InitCodec /\ [][NextCodec]_vars

\* ------------------------------------------------------------- the server

InitServer == Constructed /\ kind = "client" /\ observing = FALSE

NextServer == \E source \in Peers, data \in ServerFrames : ServerRequest(source, data)

\* server.py main(): a SimpleServer bound on a ModbusServer, frames arriving
SpecServer == InitServer /\ [][NextServer]_vars

\* ------------------------------------------------------------------- claims

Submitted == 1 .. nIocb
Finished(i) == iocb[i].ioState \in {COMPLETED, ABORTED}
Range(seq) == {seq[k] : k \in DOMAIN seq}
Occurrences(seq, x) == Cardinality({k \in DOMAIN seq : seq[k] = x})
WireIds(d) == [k \in DOMAIN wire[d] |-> wire[d][k].id]
StrictlyIncreasing(seq) ==
    \A j, k \in DOMAIN seq : j < k => seq[j] < seq[k]
\* the places in notified[d] where an IOCB fires for the first time
FirstFirings(d) ==
    {k \in DOMAIN notified[d] :
        \A j \in DOMAIN notified[d] : j < k => notified[d][j] # notified[d][k]}
\* the requests of destination d that are dispatched and not resolved
ActiveOf(d) ==
    {i \in Submitted : iocb[i].dest = d /\ iocb[i].ioState = ACTIVE}

\* C1: every destination has at most one active (dispatched, unresolved)
\* request in every reachable state, and every request sent to a destination
\* before the latest one is resolved: no second request is on the wire while
\* one is outstanding.
C1_AtMostOneActive ==
    \A d \in Peers :
        /\ Cardinality(ActiveOf(d)) <= 1
        /\ \A k \in DOMAIN wire[d] :
               k < Len(wire[d]) => Finished(wire[d][k].id)

\* one request of a destination is active while two more wait in its queue
C1_Witness ==
    \E d \in Peers :
        /\ Cardinality(ActiveOf(d)) = 1
        /\ queues[d].present
        /\ Len(queues[d].ioQueue) >= 2

\* C2: the requests of a destination go on the wire in submission order and
\* complete in submission order (IOCBs are numbered in submission order), and
\* a request is not sent before the one sent before it has completed.
C2_Fifo ==
    \A d \in Peers :
        /\ StrictlyIncreasing(WireIds(d))
        /\ \A j, k \in FirstFirings(d) :
               j < k => notified[d][j] < notified[d][k]
        /\ \A k \in DOMAIN wire[d] :
               k < Len(wire[d]) => Finished(wire[d][k].id)

\* C3: a request completed by an inbound frame was completed by a frame
\* carrying the request's own transaction ID.
C3_TxMatch ==
    \A i \in Submitted :
        /\ iocb[i].ioState = COMPLETED => iocb[i].ioResponse.tx = iocb[i].tx
        /\ (iocb[i].ioState = ABORTED /\ iocb[i].ioError.what = "exc")
               => iocb[i].ioError.tx = iocb[i].tx

\* C4: consecutive requests dispatched to a destination carry transaction
\* IDs n and (n + 1) mod 2^16.
C4_TxIncrement ==
    \A d \in Peers :
        \A k \in DOMAIN wire[d] :
            k < Len(wire[d])
                => wire[d][k + 1].tx = (wire[d][k].tx + 1) % (2 ^ 16)

\* C5: an actorError for a peer whose queue holds an active request aborts
\* the active request and then every pending request, in FIFO order, with the
\* error of the event, notifies each of them, and leaves no request of that
\* peer unfinished.
C5_AbortAll ==
    [][\A d \in Peers, e \in ActorErrors :
          (/\ kind = "app"
           /\ ActorErrorEvent(d, e)
           /\ queues[d].present
           /\ queues[d].active_iocb # 0
           /\ iocb[queues[d].active_iocb].ioState = ACTIVE)
          => LET a == queues[d].active_iocb
                 pend == queues[d].ioQueue
             IN  /\ notified'[d] = notified[d] \o <<a>> \o pend
                 /\ \A i \in {a} \cup Range(pend) :
                        /\ iocb'[i].ioState = ABORTED
                        /\ iocb'[i].ioError = actor_error(e)
                 /\ \A i \in Submitted :
                        iocb[i].dest = d
                            => iocb'[i].ioState \in {COMPLETED, ABORTED}]_vars

\* an actorError has aborted an active request and two pending ones
C5_Witness ==
    \E d \in Peers :
        /\ Len(notified[d]) >= 3
        /\ \A k \in DOMAIN notified[d] :
               /\ iocb[notified[d][k]].ioState = ABORTED
               /\ iocb[notified[d][k]].ioError \in {actor_error(e) : e \in ActorErrors}

\* C6: after ModbusClientController.abort(address, err) the controller holds
\* no queue for address.
C6_QueueRemoved ==
    last.op \in {"actor_error", "del_actor"} => ~queues[last.peer].present

\* C7: the completion of a request fires at most once, and the state, response
\* and error of a finished request never change.
C7_FiresOnce ==
    [][/\ \A d \in Peers : \A i \in Submitted :
              Occurrences(notified'[d], i) <= 1
       /\ \A i \in Submitted : Finished(i) => iocb'[i] = iocb[i]]_vars

\* C8: a clean close (del_actor) of a peer aborts every active and every
\* pending request of that peer with the connection-closed error and notifies
\* each of them.
C8_CleanCloseAborts ==
    [][\A d \in Peers :
          (kind = "app" /\ ActorRemovedEvent(d))
          => \A i \in Submitted :
                 (iocb[i].dest = d /\ iocb[i].ioState \in {ACTIVE, PENDING})
                 => /\ iocb'[i].ioState = ABORTED
                    /\ iocb'[i].ioError = connection_closed
                    /\ Occurrences(notified'[d], i)
                           = Occurrences(notified[d], i) + 1]_vars

\* a clean close has aborted an active request and two pending ones
C8_Witness ==
    \E d \in Peers :
        /\ Len(notified[d]) >= 3
        /\ \A k \in DOMAIN notified[d] :
               /\ iocb[notified[d][k]].ioState = ABORTED
               /\ iocb[notified[d][k]].ioError = connection_closed

\* C9: a frame whose protocolID is not 0 is discarded silently: no error
\* leaves the handler, nothing goes upward and nothing of the controller's
\* state changes, whatever the frame's length field.
C9_ForeignDiscarded ==
    (last.op = "confirmation" /\ last.frame.proto # 0)
        => (last.raised = "none" /\ ~last.delivered /\ ~last.changed)

\* C10: a frame whose MBAP length does not match its body, received while a
\* request is active for the peer, aborts that request with the decode error
\* and closes the connection to the peer.
C10_MalformedAborts ==
    [][(/\ last'.op = "confirmation"
        /\ ~last'.frame.lenOK
        /\ ActiveOf(last'.peer) # {})
       => /\ \A a \in ActiveOf(last'.peer) :
                 /\ iocb'[a].ioState = ABORTED
                 /\ iocb'[a].ioError.what = "DecodingError"
          /\ last'.disconnect]_vars

\* C11: an ExceptionResponse received for the active request completes that
\* request normally: it becomes the request's response, the request is not
\* aborted and carries no error.
C11_ExceptionCompletes ==
    [][\A d \in Peers, f \in Frames :
          (/\ Inbound(d, f)
           /\ f.proto = 0 /\ f.lenOK /\ f.fc = "exc"
           /\ ActiveOf(d) # {})
          => \A a \in ActiveOf(d) :
                 /\ iocb'[a].ioState = COMPLETED
                 /\ iocb'[a].ioResponse.what = "exc"
                 /\ iocb'[a].ioError = None]_vars

\* ------------------------------------------------------ claims on the codec

\* the fields of an object that are its own: not the addresses, and not
\* mpduLength, which only encoding fills in
OwnFields(p) ==
    [f \in DOMAIN p \ {"pduSource", "pduDestination", "mpduLength"} |-> p[f]]

\* the 16-bit number in the octets k and k + 1 of a frame, high octet first
BigEndian(f, k) == f[k] * 256 + f[k + 1]

\* C14: for every PDU variant and every value F of it, decoding the encoding
\* of F succeeds and yields an object equal to F in all its fields, the bit
\* list of a read-bits response of any length included
C14_RoundTrip ==
    call.fn = "encode" =>
        /\ call.decoded.raised = "none"
        /\ OwnFields(call.decoded.pdu) = OwnFields(call.arg)

\* C15: in every encoded frame the MBAP length field is the number of body
\* octets after the function code plus 2
C15_LengthField ==
    call.fn = "encode" =>
        /\ BigEndian(call.frame, 5) = (Len(call.frame) - 8) + 2
        /\ call.mpdu.mpduLength = Len(call.mpdu.pduData) + 2

C15_Witness ==
    /\ call.fn = "encode"
    /\ call.arg.klass = "ReadMultipleRegistersResponse"
    /\ Len(call.arg.registers) = 2
    /\ Len(call.frame) = 13
    /\ BigEndian(call.frame, 5) = 7

\* C16: decoding a frame that has a whole header raises a decode error
\* exactly when the number of octets after the function code differs from
\* the length field minus 2, and succeeds when they are equal
C16_LengthChecked ==
    (call.fn = "MPDU.decode" /\ Len(call.arg) >= 8) =>
        /\ call.decoded.raised \in {"none", "DecodingError"}
        /\ (call.decoded.raised = "DecodingError")
               <=> (Len(call.arg) - 8 # BigEndian(call.arg, 5) - 2)

C16_Witness ==
    /\ call.fn = "MPDU.decode"
    /\ Len(call.arg) = 10
    /\ BigEndian(call.arg, 5) = 5
    /\ call.decoded.raised = "DecodingError"

\* C17: an encoded frame is transactionID (2 octets), protocolID (2),
\* length (2), unitID (1), functionCode (1) and the body, in this order, the
\* 16-bit numbers high octet first; ReadMultipleRegisters with tx 2, unit 17,
\* address 0x006B, count 3 is 00 02 00 00 00 06 11 03 00 6B 00 03
C17_Example ==
    [ReadMultipleRegistersRequest(107, 3) EXCEPT !.mpduTransactionID = 2,
                                                 !.mpduUnitID = 17]
C17_FrameLayout ==
    call.fn = "encode" =>
        LET f == call.frame
            a == call.arg
        IN  /\ Len(f) >= 8
            /\ \A k \in DOMAIN f : f[k] \in 0 .. 255
            /\ BigEndian(f, 1) = a.mpduTransactionID
            /\ BigEndian(f, 3) = a.mpduProtocolID
            /\ BigEndian(f, 5) = call.mpdu.mpduLength
            /\ f[7] = a.mpduUnitID
            /\ f[8] = a.mpduFunctionCode
            /\ SubSeq(f, 9, Len(f)) = call.mpdu.pduData
            /\ (a = C17_Example
                    => f = <<0, 2, 0, 0, 0, 6, 17, 3, 0, 107, 0, 3>>)

C17_Witness ==
    /\ call.fn = "encode"
    /\ call.arg = C17_Example
    /\ call.frame = <<0, 2, 0, 0, 0, 6, 17, 3, 0, 107, 0, 3>>

\* C18: for every list B of booleans, unpacking the packing of B gives B in
\* its first |B| elements and False in every element after them
C18_PackUnpack ==
    call.fn = "_packBitsToString" =>
        /\ Len(call.unpacked) >= Len(call.arg)
        /\ SubSeq(call.unpacked, 1, Len(call.arg)) = call.arg
        /\ \A k \in DOMAIN call.unpacked :
               k > Len(call.arg) => call.unpacked[k] = FALSE

C18_Witness ==
    /\ call.fn = "_packBitsToString"
    /\ Len(call.arg) = 9
    /\ call.arg[9]
    /\ Len(call.unpacked) = 16
    /\ call.unpacked[9]

\* C19: packing N bits gives ceil(N/8) octets, bit j (value 2^j) of octet k
\* holds coil 8k+j, the unused high bits of a last partial octet are zero;
\* the 19 coils of the example pack to CD 6B 05
C19_PackLayout ==
    call.fn = "_packBitsToString" =>
        LET B == call.arg
            p == call.packed
        IN  /\ Len(p) = (Len(B) + 7) \div 8
            /\ \A k \in 0 .. Len(p) - 1 :
                   /\ p[k + 1] \in 0 .. 255
                   /\ \A j \in 0 .. 7 :
                          ((p[k + 1] \div (2 ^ j)) % 2 = 1)
                              <=> (8 * k + j < Len(B) /\ B[8 * k + j + 1])
            /\ (B = Coils19 => p = <<205, 107, 5>>)

C19_Witness ==
    /\ call.fn = "_packBitsToString"
    /\ call.arg = Coils19
    /\ call.packed = <<205, 107, 5>>

\* C20: stream_to_packet yields nothing when the buffer has fewer than 6
\* octets or fewer than L + 6, L the big-endian 16-bit number at offset 4;
\* otherwise it yields the first L + 6 octets as the frame and a remainder,
\* and the frame followed by the remainder is the buffer
C20_StreamToPacket ==
    call.fn = "stream_to_packet" =>
        LET d == call.arg
        IN  IF Len(d) < 6 \/ Len(d) < BigEndian(d, 5) + 6
            THEN call.packet = <<>>
            ELSE /\ Len(call.packet) = 2
                 /\ call.packet[1] = SubSeq(d, 1, BigEndian(d, 5) + 6)
                 /\ call.packet[1] \o call.packet[2] = d

C20_Witness ==
    /\ call.fn = "stream_to_packet"
    /\ Len(call.arg) = 10
    /\ BigEndian(call.arg, 5) = 2
    /\ call.packet = <<<<17, 34, 51, 68, 0, 2, 1, 2>>, <<3, 4>>>>

\* ------------------------------------------- claims on the register codecs

\* the integer codecs, and the values each of them can represent
IntegerCodecs == {"byte", "int", "uint", "dint", "udint", "be-dint", "be-udint"}
InRange(dtype, v) ==
    CASE dtype = "byte" -> v.hi = 0 /\ v.lo <= 255
      [] dtype = "int" ->
            \/ v.hi = 0 /\ v.lo <= 32767
            \/ v.hi = -1 /\ v.lo >= 32768
      [] dtype = "uint" -> v.hi = 0
      [] dtype \in {"dint", "be-dint"} -> v.hi \in -32768 .. 32767
      [] dtype \in {"udint", "be-udint"} -> v.hi \in 0 .. 65535

\* a call of pack of an integer codec on an integer
PackedInteger ==
    /\ call.fn = "pack"
    /\ call.dtype \in IntegerCodecs
    /\ ~IsFloat(call.arg)

\* C21: for each of the integer codecs byte, int, uint, dint, udint, be-dint
\* and be-udint and every value v in the range the codec represents,
\* unpack(pack(v)) is v
C21_RoundTrip ==
    (PackedInteger /\ InRange(call.dtype, call.arg))
    => call.unpacked = Result(call.arg)

\* C22: dint and udint unpack [r0, r1] as (r0 << 16) | r1, be-dint and
\* be-udint as (r1 << 16) | r0; the signed codecs give the value less 2^32
\* when its bit 31 is set, the unsigned ones the value itself in 0..2^32-1
C22_WordOrder ==
    (/\ call.fn = "unpack"
     /\ call.dtype \in {"dint", "udint", "be-dint", "be-udint"}
     /\ Len(call.arg) >= 2)
    => LET high == IF call.dtype \in {"dint", "udint"}
                   THEN call.arg[1] ELSE call.arg[2]
           low == IF call.dtype \in {"dint", "udint"}
                  THEN call.arg[2] ELSE call.arg[1]
           signed == call.dtype \in {"dint", "be-dint"}
       IN  /\ call.unpacked.raised = "none"
           /\ call.unpacked.value.lo = low
           /\ call.unpacked.value.hi =
                  IF signed /\ high >= 32768 THEN high - 65536 ELSE high
           /\ signed => call.unpacked.value.hi \in -32768 .. 32767
           /\ ~signed => call.unpacked.value.hi \in 0 .. 65535

\* be-dint on [1, 65535] gives 0xFFFF0001 as a signed number, -65535
C22_Witness ==
    /\ call.fn = "unpack"
    /\ call.dtype = "be-dint"
    /\ call.arg = <<1, 65535>>
    /\ call.unpacked = Result(PyInt(-1, 1))

\* C23: the byte codec unpacks [r] as the low octet r & 0xFF of the
\* register, a value in 0..255
C23_ByteLowOctet ==
    (call.fn = "unpack" /\ call.dtype = "byte" /\ Len(call.arg) >= 1)
    => /\ call.unpacked = Result(Num(call.arg[1] % 256))
       /\ call.unpacked.value.hi = 0
       /\ call.unpacked.value.lo \in 0 .. 255

\* C24: pack of an integer codec on a value outside the range the codec
\* represents fails with an error and returns no registers
C24_OutOfRangeFails ==
    (PackedInteger /\ ~InRange(call.dtype, call.arg))
    => call.packed.raised # "none"

\* the register lengths of the codec table
TableLength(dtype) ==
    CASE dtype \in {"byte", "int", "uint"} -> 1
      [] dtype \in {"dint", "udint", "real", "roc-real", "be-dint",
                    "be-udint", "be-real"} -> 2
      [] dtype \in {"str", "be-str"} -> 6

\* C25: every codec of the registry declares the register length of the
\* table (1 for byte, int, uint; 2 for dint, udint, real, roc-real, be-dint,
\* be-udint, be-real; 6 for str and be-str), and unpacks a list of exactly
\* that many registers into a value
C25_RegisterLength ==
    call.fn = "unpack"
    => /\ registerLength(call.dtype) = TableLength(call.dtype)
       /\ Len(call.arg) = registerLength(call.dtype)
              => call.unpacked.raised = "none"

\* the octets of a register list, each register high octet first or low
\* octet first
OctetsOf(registers, highFirst) ==
    [k \in 1 .. 2 * Len(registers) |->
        LET reg == registers[(k + 1) \div 2]
        IN  IF (k % 2 = 1) = highFirst THEN reg \div 256 ELSE reg % 256]

\* C26: when the octets of the registers hold a zero octet, str.unpack gives
\* the characters of the octets before the first zero octet, each register
\* high octet then low octet, and be-str.unpack the same with each register
\* low octet then high octet
C26_NullTerminated ==
    (/\ call.fn = "unpack"
     /\ call.dtype \in {"str", "be-str"}
     /\ \E r \in Range(call.arg) : r \div 256 = 0 \/ r % 256 = 0)
    => LET octets == OctetsOf(call.arg, call.dtype = "str")
           value == call.unpacked.value
       IN  /\ call.unpacked.raised = "none"
           /\ Len(value) < Len(octets)
           /\ value = SubSeq(octets, 1, Len(value))
           /\ octets[Len(value) + 1] = 0
           /\ \A i \in 1 .. Len(value) : value[i] # 0

\* str on the registers of "Hello" followed by zero octets
C26_Witness ==
    /\ call.fn = "unpack"
    /\ call.dtype = "str"
    /\ call.arg = <<18533, 27756, 28416, 0, 0, 0>>
    /\ call.unpacked = Result(<<72, 101, 108, 108, 111>>)

\* C39: when the octets of the registers hold no zero octet, str.unpack and
\* be-str.unpack give all 2 * N characters of the N registers
C39_NoNullKeepsAll ==
    (/\ call.fn = "unpack"
     /\ call.dtype \in {"str", "be-str"}
     /\ \A r \in Range(call.arg) : r \div 256 # 0 /\ r % 256 # 0)
    => /\ call.unpacked.raised = "none"
       /\ call.unpacked.value = OctetsOf(call.arg, call.dtype = "str")

\* ---------------------------------------------- claims on the console

\* the type and the address a register number of the human notation stands
\* for: up to 4 digits a coil, Trrrr and Trrrrr type T
HumanType(register) ==
    CASE Digits(register) <= 4 -> 0
      [] Digits(register) = 5 -> register \div 10000
      [] Digits(register) = 6 -> register \div 100000
HumanAddress(register) ==
    CASE Digits(register) <= 4 -> register
      [] Digits(register) = 5 -> register % 10000
      [] Digits(register) = 6 -> register % 100000

\* C31: the console maps a register number of at most 4 digits to type 0
\* (coils) with the number as address, a 5-digit number Trrrr to type T and
\* address rrrr, a 6-digit number Trrrrr to type T and address rrrrr, and
\* the address put in the request is that address minus 1
C31_RegisterNotation ==
    (/\ call.fn \in {"do_read", "do_write"}
     /\ call.arg >= 1
     /\ Digits(call.arg) <= 6)
    => /\ call.raised = "none"
       /\ call.typed
       /\ call.registerType = HumanType(call.arg)
       /\ call.register = HumanAddress(call.arg)
       /\ call.submitted => call.req.address = HumanAddress(call.arg) - 1

\* ----------------------------------------------------- claims on the server

\* a frame with a whole header whose length field matches its body
WellFormed(f) == Len(f) >= 8 /\ BigEndian(f, 5) = (Len(f) - 8) + 2

\* the header and body of what was handed down for sending: read from the
\* octets when it was encoded, from the object when it was not
SentPDU(item) ==
    IF item.encoded
    THEN [mpduTransactionID |-> BigEndian(item.frame, 1),
          mpduUnitID |-> item.frame[7],
          mpduFunctionCode |-> item.frame[8],
          body |-> SubSeq(item.frame, 9, Len(item.frame))]
    ELSE [mpduTransactionID |-> item.obj.mpduTransactionID,
          mpduUnitID |-> item.obj.mpduUnitID,
          mpduFunctionCode |-> item.obj.mpduFunctionCode,
          body |-> <<item.obj.exceptionCode>>]

\* C12: for a well-formed frame with protocolID 0 and a function code below
\* 128 that has no request class, the server sends exactly one
\* ExceptionResponse with function code fc + 128 and ILLEGAL_FUNCTION,
\* carrying the frame's transaction ID and unit ID; the handling ends
\* without an error and passes nothing to the application
C12_UnknownFunction ==
    (/\ call.fn = "ModbusServer.confirmation"
     /\ WellFormed(call.arg)
     /\ BigEndian(call.arg, 3) = 0
     /\ call.arg[8] < 128
     /\ request_types(call.arg[8]) = "None")
    => /\ Len(call.sent) = 1
       /\ SentPDU(call.sent[1]).mpduFunctionCode = call.arg[8] + 128
       /\ SentPDU(call.sent[1]).body = <<ILLEGAL_FUNCTION>>
       /\ SentPDU(call.sent[1]).mpduTransactionID = BigEndian(call.arg, 1)
       /\ SentPDU(call.sent[1]).mpduUnitID = call.arg[7]
       /\ call.raised = "none"
       /\ ~call.passed

\* C13: every response the server sends for a request it handled carries
\* the transaction ID and the unit ID of the request and is addressed to the
\* request's source
C13_ResponseMatches ==
    (call.fn = "ModbusServer.confirmation" /\ call.passed)
    => \A k \in DOMAIN call.sent :
           /\ SentPDU(call.sent[k]).mpduTransactionID = BigEndian(call.arg, 1)
           /\ SentPDU(call.sent[k]).mpduUnitID = call.arg[7]
           /\ call.sent[k].pduDestination = call.source

\* the fields of the request in a frame the server receives
UnitOf(f) == f[7]
FunctionOf(f) == f[8]
AddressOf(f) == BigEndian(f, 9)
CountOf(f) == BigEndian(f, 11)

\* a well-formed frame with protocolID 0 addressed to the unit of the server
ForServer(f) ==
    /\ WellFormed(f)
    /\ BigEndian(f, 3) = 0
    /\ UnitOf(f) = SimpleServer_init.unitNumber

\* the server answered with one response: its function code and its body
Answered(c) == c.raised = "none" /\ Len(c.sent) = 1
\* the server answered with an exception response for function code fc
\* carrying the exception code
AnsweredException(c, fc, code) ==
    /\ Answered(c)
    /\ SentPDU(c.sent[1]).mpduFunctionCode = fc + 128
    /\ SentPDU(c.sent[1]).body = <<code>>

\* C27: a WriteSingleCoil request with a value that is neither 0x0000 nor
\* 0xFF00 is answered with the exception ILLEGAL_DATA_VALUE and no coil
\* changes; with one of the two values and an address inside the store the
\* addressed coil becomes off or on, no other coil changes, and the response
\* echoes the address and the value
C27_WriteSingleCoil ==
    [][(/\ call'.fn = "ModbusServer.confirmation"
        /\ ForServer(call'.arg)
        /\ FunctionOf(call'.arg) = writeSingleCoil
        /\ Len(call'.arg) = 12)
       => LET address == AddressOf(call'.arg)
              value == CountOf(call'.arg)
          IN  /\ value \notin {0, 65280}
                  => /\ AnsweredException(call', writeSingleCoil,
                                          ILLEGAL_DATA_VALUE)
                     /\ server'.coils = server.coils
              /\ (value \in {0, 65280} /\ address < Len(server.coils))
                  => /\ Answered(call')
                     /\ SentPDU(call'.sent[1]).mpduFunctionCode = writeSingleCoil
                     /\ SentPDU(call'.sent[1]).body =
                            put_short(address) \o put_short(value)
                     /\ \A i \in DOMAIN server.coils :
                            Truth(server'.coils)[i] =
                                IF i = address + 1 THEN value = 65280
                                ELSE Truth(server.coils)[i]]_vars

\* the function codes that read, and a request of one of them that reaches
\* beyond the ten places of the store
ReadCodes ==
    {readCoils, readDiscreteInputs, readMultipleRegisters, readInputRegisters}
ReadsBeyond(f) ==
    /\ ForServer(f)
    /\ FunctionOf(f) \in ReadCodes
    /\ Len(f) = 12
    /\ AddressOf(f) + CountOf(f) > 10

\* C28: a read request (function codes 1, 2, 3, 4) with address + count
\* greater than the size of the store is answered with the exception
\* ILLEGAL_DATA_ADDRESS and the store is unchanged
C28_ReadBeyond ==
    [][(call'.fn = "ModbusServer.confirmation" /\ ReadsBeyond(call'.arg))
       => /\ AnsweredException(call', FunctionOf(call'.arg),
                               ILLEGAL_DATA_ADDRESS)
          /\ server' = server]_vars

\* C29: a WriteSingleCoil or WriteSingleRegister request with an address at
\* or beyond the size of the store is answered with the exception
\* ILLEGAL_DATA_ADDRESS, the store is unchanged, and the handler ends
\* without an error
C29_WriteBeyond ==
    [][(/\ call'.fn = "ModbusServer.confirmation"
        /\ ForServer(call'.arg)
        /\ FunctionOf(call'.arg) \in {writeSingleCoil, writeSingleRegister}
        /\ Len(call'.arg) = 12
        /\ AddressOf(call'.arg) >= 10)
       => /\ call'.raised = "none"
          /\ AnsweredException(call', FunctionOf(call'.arg),
                               ILLEGAL_DATA_ADDRESS)
          /\ server' = server]_vars

\* the function codes the server is to support
SupportedCodes ==
    {readCoils, readDiscreteInputs, readMultipleRegisters, readInputRegisters,
     writeSingleCoil, writeSingleRegister, writeMultipleCoils,
     writeMultipleRegisters, readWriteMultipleRegisters}

\* a well-formed request of a supported function code whose addresses lie
\* inside the ten places of the store and whose value the server takes
InStore(f) ==
    /\ ForServer(f)
    /\ Len(f) >= 12
    /\ CASE FunctionOf(f) \in ReadCodes ->
                Len(f) = 12 /\ CountOf(f) >= 1 /\ AddressOf(f) + CountOf(f) <= 10
         [] FunctionOf(f) = writeSingleCoil ->
                Len(f) = 12 /\ AddressOf(f) < 10 /\ CountOf(f) \in {0, 65280}
         [] FunctionOf(f) = writeSingleRegister ->
                Len(f) = 12 /\ AddressOf(f) < 10
         [] FunctionOf(f) = writeMultipleCoils ->
                /\ CountOf(f) >= 1 /\ AddressOf(f) + CountOf(f) <= 10
                /\ Len(f) = 13 + ((CountOf(f) + 7) \div 8)
                /\ f[13] = (CountOf(f) + 7) \div 8
         [] FunctionOf(f) = writeMultipleRegisters ->
                /\ CountOf(f) >= 1 /\ AddressOf(f) + CountOf(f) <= 10
                /\ Len(f) = 13 + (2 * CountOf(f))
                /\ f[13] = 2 * CountOf(f)
         [] FunctionOf(f) = readWriteMultipleRegisters ->
                /\ Len(f) >= 17
                /\ CountOf(f) >= 1 /\ AddressOf(f) + CountOf(f) <= 10
                /\ BigEndian(f, 15) >= 1
                /\ BigEndian(f, 13) + BigEndian(f, 15) <= 10
                /\ Len(f) = 17 + (2 * BigEndian(f, 15))
                /\ f[17] = 2 * BigEndian(f, 15)
         [] OTHER -> FALSE

\* C30: a well-formed in-range request of a supported function code (1, 2,
\* 3, 4, 5, 6, 15, 16, 23) addressed to the unit of the server is answered
\* with a normal response of the same function code; and the function code
\* of an exception response is that of the request with the high bit set
C30_SameFunctionCode ==
    call.fn = "ModbusServer.confirmation"
    => /\ InStore(call.arg)
           => /\ Answered(call)
              /\ SentPDU(call.sent[1]).mpduFunctionCode = FunctionOf(call.arg)
       /\ \A k \in DOMAIN call.sent :
              SentPDU(call.sent[k]).mpduFunctionCode >= 128
                  => SentPDU(call.sent[k]).mpduFunctionCode
                         = FunctionOf(call.arg) + 128

\* C37: a WriteMultipleRegisters request is all or nothing: either the count
\* registers from address on take the values of the request, every other
\* register is unchanged and the response echoes address and count, or no
\* register changes; also when the request carries fewer values than count
C37_AllOrNothing ==
    [][(/\ call'.fn = "ModbusServer.confirmation"
        /\ ForServer(call'.arg)
        /\ FunctionOf(call'.arg) = writeMultipleRegisters
        /\ Len(call'.arg) >= 13)
       => LET address == AddressOf(call'.arg)
              count == CountOf(call'.arg)
          IN  \/ server'.registers = server.registers
              \/ /\ Len(call'.arg) >= 13 + (2 * count)
                 /\ Answered(call')
                 /\ SentPDU(call'.sent[1]).mpduFunctionCode
                        = writeMultipleRegisters
                 /\ SentPDU(call'.sent[1]).body
                        = put_short(address) \o put_short(count)
                 /\ \A i \in DOMAIN server.registers :
                        server'.registers[i] =
                            IF i - 1 \in address .. address + count - 1
                            THEN BigEndian(call'.arg,
                                           14 + (2 * (i - 1 - address)))
                            ELSE server.registers[i]]_vars

\* the hooks of the server
PullHooks == {"pull_coils", "pull_registers"}
PushHooks == {"push_coils", "push_registers"}

\* C38: for each request to the server the pull hook is called with the
\* address and the count of the request before the values of a read are
\* taken from the store, the push hook is called after the store was
\* modified by a write, and no hook is called for a request that is answered
\* with an exception response
C38_HookOrder ==
    (/\ call.fn = "ModbusServer.confirmation"
     /\ ForServer(call.arg)
     /\ Len(call.arg) >= 12)
    => LET trace == call.trace
           pull == IF FunctionOf(call.arg) \in {readCoils, readDiscreteInputs}
                   THEN "pull_coils" ELSE "pull_registers"
       IN  /\ \A k \in DOMAIN trace :
                  trace[k].op = "read"
                      => \E j \in 1 .. k - 1 :
                             trace[j] = Hook(pull, AddressOf(call.arg),
                                             CountOf(call.arg))
           /\ \A k \in DOMAIN trace :
                  trace[k].op = "write"
                      => \E j \in k + 1 .. Len(trace) :
                             trace[j].op \in PushHooks
           /\ \A j \in DOMAIN trace :
                  trace[j].op \in PushHooks
                      => /\ \E k \in 1 .. j - 1 : trace[k].op = "write"
                         /\ \A k \in j + 1 .. Len(trace) :
                                trace[k].op # "write"
           /\ (\E k \in DOMAIN call.sent :
                  SentPDU(call.sent[k]).mpduFunctionCode >= 128)
                  => \A k \in DOMAIN trace :
                         trace[k].op \notin PullHooks \cup PushHooks

\* --------------------------------------- further claims on the controller

\* the queue of destination d holds neither an active nor a pending request
EmptyQueue(q) == q.active_iocb = 0 /\ q.ioQueue = <<>>

\* C32: in every reachable state the controller holds no queue that has
\* neither an active nor a pending request: when a response completes the
\* active request and nothing is pending the queue is removed, and when
\* something is pending the head of the pending requests is the request
\* dispatched next
C32_NoEmptyQueue ==
    /\ [](\A d \in Peers : queues[d].present => ~EmptyQueue(queues[d]))
    /\ [][\A d \in Peers :
             /\ (/\ \E f \in Frames : Inbound(d, f)
                 /\ ActiveOf(d) # {}
                 /\ \A a \in ActiveOf(d) : iocb'[a].ioState # ACTIVE
                 /\ queues[d].ioQueue = <<>>)
                => ~queues'[d].present
             /\ (/\ queues[d].present
                 /\ queues[d].ioQueue # <<>>
                 /\ Len(wire'[d]) > Len(wire[d]))
                => wire'[d][Len(wire'[d])].id = Head(queues[d].ioQueue)]_vars

\* C33: an inbound frame from a peer for which the controller has no queue,
\* or whose queue has no active request, is dropped: no request is completed
\* or aborted, nothing is notified or sent, and the queues are unchanged
C33_DroppedWithoutActive ==
    [][\A d \in Peers, f \in Frames :
          (/\ \/ ~queues[d].present
              \/ queues[d].active_iocb = 0
           /\ Inbound(d, f))
          => /\ iocb' = iocb
             /\ queues' = queues
             /\ notified' = notified
             /\ wire' = wire]_vars

\* a frame reached the controller while the queue of its peer had a pending
\* request and no active one, and changed nothing
C33_Witness ==
    /\ last.op = "confirmation"
    /\ last.delivered
    /\ ~last.changed
    /\ queues[last.peer].present
    /\ queues[last.peer].active_iocb = 0
    /\ queues[last.peer].ioQueue # <<>>

\* the errors a lost connection aborts with
LossErrors == {connection_closed} \cup {actor_error(e) : e \in ActorErrors}

\* the requests of destination d were aborted by the loss of the connection
\* and none of them is left pending or active
AbortedByLoss(d) ==
    /\ \E i \in Submitted :
           /\ iocb[i].dest = d
           /\ iocb[i].ioState = ABORTED
           /\ iocb[i].ioError \in LossErrors
    /\ \A i \in Submitted : iocb[i].dest = d => Finished(i)

\* C35: after a connection loss has aborted the requests of a destination,
\* an active one among them, a request submitted later to that destination
\* is dispatched at once: it becomes the active request and is sent, and is
\* not queued behind the aborted request
C35_DispatchAfterAbort ==
    [][\A d \in Peers :
          (/\ AbortedByLoss(d)
           /\ \E k \in DOMAIN wire[d] :
                  /\ iocb[wire[d][k].id].ioState = ABORTED
                  /\ iocb[wire[d][k].id].ioError \in LossErrors
           /\ Submit(d, TRUE))
          => /\ iocb'[nIocb'].ioState = ACTIVE
             /\ queues'[d].active_iocb = nIocb'
             /\ wire'[d] = Append(wire[d], [id |-> nIocb',
                                           tx |-> iocb'[nIocb'].tx])]_vars

\* what the controller holds for destination y: its queue, its requests and
\* their notifications
StateOf(y, q, io, n) ==
    [queue |-> q[y], notified |-> n[y],
     iocbs |-> [i \in {j \in IocbIds : io[j].dest = y} |-> io[i]]]

\* C36: an event for one destination changes nothing of another one: a frame
\* from peer d or an abort for peer d leaves the active request, the pending
\* requests and the state of every request of every other peer unchanged
C36_DestinationsApart ==
    [][\A d \in Peers :
          (\/ \E f \in Frames : Inbound(d, f)
           \/ \E e \in ActorErrors : ActorErrorEvent(d, e)
           \/ ActorRemovedEvent(d))
          => \A y \in Peers \ {d} :
                 StateOf(y, queues', iocb', notified')
                     = StateOf(y, queues, iocb, notified)]_vars

\* the requests of one peer were aborted while another peer had an active
\* request
C36_Witness ==
    /\ kind = "app"
    /\ last.op \in {"actor_error", "del_actor"}
    /\ last.changed
    /\ \E y \in Peers \ {last.peer} : ActiveOf(y) # {}

\* ------------------------------------------------------------- progress

\* a request sent to destination d has neither completed nor been aborted
Awaited(d) == \E k \in DOMAIN wire[d] : ~Finished(wire[d][k].id)

\* the director delivers something of peer d to the client: a frame, an
\* actor_error event or a del_actor event
Delivery(d) ==
    \/ \E f \in Frames : Inbound(d, f)
    \/ \E e \in ActorErrors : ActorErrorEvent(d, e)
    \/ ActorRemovedEvent(d)

\* the event loop runs every deferred _trigger call, and while a request
\* sent to a peer is unresolved the director goes on delivering that peer's
\* frames or actor events to the client
Fairness ==
    \A d \in Peers :
        /\ WF_vars(Trigger(d))
        /\ WF_vars(Awaited(d) /\ Delivery(d))

SpecLive == Init /\ [][Next]_vars /\ Fairness

\* C34: every submitted request is eventually completed or aborted: none
\* stays pending or active forever, given that for each request sent the
\* director eventually delivers a frame or an actor event of its peer
C34_EventuallyResolved ==
    \A i \in IocbIds : (i \in Submitted) ~> Finished(i)

====
